---- MODULE Spec2Model ----
(***************************************************************************)
(* Model of torch/csrc/jit/passes/quantization/insert_quant_dequant.cpp:   *)
(* the pass that replaces observer calls by quantize/dequantize nodes.     *)
(*                                                                         *)
(* The graph IR (Graph, Block, Node, Value and its use lists) is kept as a *)
(* record g:                                                               *)
(*   g.n    node id -> [kind, ins, nout, name, blocks]                     *)
(*   g.b    block id -> [nodes (the block's node list), ret (its return    *)
(*          node)]; block 0 is graph->block()                              *)
(*   g.next the id the next created node gets                              *)
(*   g.err  "" or the message of the check that aborted the pass           *)
(* A Value is <<n, k>>: output k of node n.  Node 0 is the graph's Param   *)
(* node, so <<0, 1>> is graph->inputs()[0] (self).  Input slots are        *)
(* numbered from 1: C++ input(i) is ins[i + 1].                            *)
(***************************************************************************)
EXTENDS Integers, Sequences, FiniteSets, TLC

VARIABLES
    pc,                         \* position in InsertQuantDeQuant
    pass,                       \* 1: first invocation of the pass, 2: second
    graph,                      \* the method's Graph
    snap,                       \* history: the graph at the end of pass 1
    quant_type_,                \* InsertQuantDeQuantHelper::quant_type_
    nmod,                       \* number of Module instances sharing the Graph
    cur,                        \* Module instance run() is working on
    obsIdx,                     \* loop index over observer_nodes_for_graph_
    calib,                      \* calibration state: module -> observer -> qscheme
    attrs,                      \* instance attribute values: module -> name -> value
    typeAttrs,                  \* attribute names of the shared ClassType
    observer_nodes_for_graph_,
    nodes_to_destroy_,
    observer_modules_to_remove_,
    qparam_name_map_for_node_,
    qscheme_for_graph_,
    quantized_values_,
    handled,                    \* history: observers given nodes or attribute values
    last,                       \* history: what the last step did
    tpc, tstack, tree, tseen, tlog, \* module-tree traversal (run / cleanup order)
    typeSlots,                  \* attribute names of the shared ClassType, by slot
    slots,                      \* instance storage: module -> attribute held by each slot
    slots0,                     \* history: slots when cleanup started
    removed_observer_slots_,
    cleaned,                    \* history: the Module instances in the order cleanup took them
    destroy_log,                \* history: removeAllInputs / destroy calls of cleanup
    weight_to_graph_fn_,
    wlog                        \* history: callables built and run by runWeightObserver

slotVars == <<typeSlots, slots>>

cleanVars == <<slots0, removed_observer_slots_, cleaned, destroy_log>>

weightVars == <<weight_to_graph_fn_, wlog>>

travVars == <<tpc, tstack, tree, tseen, tlog>>

passVars == <<pc, pass, graph, snap, quant_type_, nmod, cur, obsIdx, calib, attrs,
          typeAttrs, observer_nodes_for_graph_, nodes_to_destroy_,
          observer_modules_to_remove_, qparam_name_map_for_node_,
          qscheme_for_graph_, quantized_values_, handled, last,
          slotVars, cleanVars, weightVars>>

vars == <<passVars, travVars>>

-----------------------------------------------------------------------------
(* Bounds of the model *)

\* most consumers an observed Value has in the generated graphs
MaxConsumers == 2
\* Module instances that share the Graph in the insertion specification
NumModules == 2
\* most consumers of the observed Value in the graphs the whole pass is run on
MaxPassConsumers == 2
\* most Module instances of a module tree in the traversal specification
MaxTreeModules == 3
\* most calls of extractAndRunWeightObserver in the weight observer specification
MaxCalls == 3
\* suffixes 0 .. MaxTaken - 1 may be taken by attributes the module has before
\* the pass
MaxTaken == 2
\* longest chain of ops behind a quantized Value in the propagation specification
MaxChain == 2
\* most users an op of the chain has beside the next op of the chain
MaxUsers == 2

\* calls of cleanup that reach a Module instance already cleaned
MaxRevisits == 1

-----------------------------------------------------------------------------
(* Graph IR primitives (torch/csrc/jit/ir) *)

Range(s) == {s[i] : i \in DOMAIN s}

NoNode == 0 - 1

SelfV == <<0, 1>>

Out(n) == <<n, 1>>

\* attribute and method names; generated qparam names carry the observed
\* value's debug name (the Value itself) and the uid suffix
Name(q) == [base |-> <<0, 0>>, q |-> q, uid |-> 0 - 1]

QName(v, q, uid) == [base |-> v, q |-> q, uid |-> uid]

Nd(kind, ins, nout, name, blocks) ==
    [kind |-> kind, ins |-> ins, nout |-> nout, name |-> name, blocks |-> blocks]

IndexIn(s, e) == CHOOSE i \in DOMAIN s : s[i] = e

InsertAt(s, i, e) == SubSeq(s, 1, i - 1) \o <<e>> \o SubSeq(s, i, Len(s))

RemoveFrom(s, e) == SelectSeq(s, LAMBDA x : x # e)

BlockOf(g, id) ==
    IF id = 0 THEN 0
    ELSE CHOOSE b \in DOMAIN g.b : id = g.b[b].ret \/ id \in Range(g.b[b].nodes)

OwnerOf(g, b) == CHOOSE n \in DOMAIN g.n : b \in Range(g.n[n].blocks)

\* Node::next(): the node after id in its block, the return node at the end
NextNode(g, id) ==
    LET s == g.b[BlockOf(g, id)].nodes
        i == IndexIn(s, id)
    IN IF i = Len(s) THEN g.b[BlockOf(g, id)].ret ELSE s[i + 1]

\* graph->insertNode(create(...)) with the insert point before node p
InsertNode(g, p, nd) ==
    LET b == BlockOf(g, p)
        s == g.b[b].nodes
        s2 == IF p = g.b[b].ret THEN Append(s, g.next)
              ELSE InsertAt(s, IndexIn(s, p), g.next)
    IN [g EXCEPT !.n = (g.next :> nd) @@ g.n,
                 !.b[b].nodes = s2,
                 !.next = g.next + 1]

UseSet(g, v) ==
    {u \in UNION {{<<m, i>> : i \in DOMAIN g.n[m].ins} : m \in DOMAIN g.n} :
        g.n[u[1]].ins[u[2]] = v}

Users(g, v) == {u[1] : u \in UseSet(g, v)}

RECURSIVE SortUses(_)
SortUses(S) ==
    IF S = {} THEN <<>>
    ELSE LET m == CHOOSE x \in S : \A y \in S :
                      x[1] < y[1] \/ (x[1] = y[1] /\ x[2] <= y[2])
         IN <<m>> \o SortUses(S \ {m})

\* Value::uses() as a list of (user, offset)
Uses(g, v) == SortUses(UseSet(g, v))

SubstIns(ins, from, to) == [i \in DOMAIN ins |-> IF ins[i] = from THEN to ELSE ins[i]]

\* Node::replaceInput(offset, v)
ReplaceInput(g, u, i, v) == [g EXCEPT !.n[u].ins[i] = v]

\* Node::replaceInputWith(from, to): every input slot of u that reads from
ReplaceInputWith(g, u, from, to) ==
    [g EXCEPT !.n[u].ins = SubstIns(g.n[u].ins, from, to)]

\* Value::replaceAllUsesWith(to)
ReplaceAllUsesWith(g, from, to) ==
    [g EXCEPT !.n = [u \in DOMAIN g.n |->
                        [g.n[u] EXCEPT !.ins = SubstIns(g.n[u].ins, from, to)]]]

\* Node::removeAllInputs()
RemoveAllInputs(g, u) == IF u \in DOMAIN g.n THEN [g EXCEPT !.n[u].ins = <<>>] ELSE g

HasUses(g, u) == \E k \in 1..g.n[u].nout : UseSet(g, <<u, k>>) # {}

\* Node::destroy(): unlink and free; a node whose output is still used or that
\* still has inputs must not be destroyed
Destroy(g, u) ==
    IF u \notin DOMAIN g.n THEN [g EXCEPT !.err = "destroy of a destroyed node"]
    ELSE IF HasUses(g, u) THEN [g EXCEPT !.err = "destroy of a node with uses"]
    ELSE LET b == BlockOf(g, u)
         IN [g EXCEPT !.n = [x \in DOMAIN g.n \ {u} |-> g.n[x]],
                      !.b[b].nodes = RemoveFrom(g.b[b].nodes, u)]

RECURSIVE DestroyAll(_, _)
DestroyAll(g, s) ==
    IF s = <<>> THEN g ELSE DestroyAll(Destroy(g, Head(s)), Tail(s))

RECURSIVE RemoveAllInputsOf(_, _)
RemoveAllInputsOf(g, s) ==
    IF s = <<>> THEN g ELSE RemoveAllInputsOf(RemoveAllInputs(g, Head(s)), Tail(s))

\* the chain node, owning node of its block, ... up to the top block
RECURSIVE Chain(_, _)
Chain(g, id) ==
    IF BlockOf(g, id) = 0 THEN <<id>>
    ELSE <<id>> \o Chain(g, OwnerOf(g, BlockOf(g, id)))

\* topo_position_ inside the node's own block
Pos(g, id) ==
    LET b == BlockOf(g, id)
    IN IF id = 0 THEN 0
       ELSE IF id = g.b[b].ret THEN Len(g.b[b].nodes) + 1
       ELSE IndexIn(g.b[b].nodes, id)

\* Node::isAfter(b): compared in the first block the two block chains share
IsAfter(g, a, b) ==
    LET ca == Chain(g, a)
        cb == Chain(g, b)
        pairs == {p \in (DOMAIN ca) \X (DOMAIN cb) :
                     BlockOf(g, ca[p[1]]) = BlockOf(g, cb[p[2]])}
        first == CHOOSE p \in pairs : \A q \in pairs :
                     p[1] < q[1] \/ (p[1] = q[1] /\ p[2] <= q[2])
    IN Pos(g, ca[first[1]]) > Pos(g, cb[first[2]])

\* Value::replaceAllUsesAfterNodeWith(node, to)
ReplaceAllUsesAfterNodeWith(g, from, node, to) ==
    [g EXCEPT !.n = [u \in DOMAIN g.n |->
        IF u # node /\ from \in Range(g.n[u].ins) /\ IsAfter(g, u, node)
        THEN [g.n[u] EXCEPT !.ins = SubstIns(g.n[u].ins, from, to)]
        ELSE g.n[u]]]

\* Node::moveBefore(p), within or across blocks
MoveBefore(g, id, p) ==
    LET b1 == BlockOf(g, id)
        g1 == [g EXCEPT !.b[b1].nodes = RemoveFrom(g.b[b1].nodes, id)]
        b2 == BlockOf(g1, p)
        s == g1.b[b2].nodes
    IN [g1 EXCEPT !.b[b2].nodes = IF p = g1.b[b2].ret THEN Append(s, id)
                                  ELSE InsertAt(s, IndexIn(s, p), id)]

\* all nodes of the graph in the order the passes' block stacks visit them:
\* a block's nodes, then the sub-blocks pushed while walking it, last pushed first
RECURSIVE VisitBlocks(_, _)
VisitBlocks(g, stack) ==
    IF stack = <<>> THEN <<>>
    ELSE LET b == stack[Len(stack)]
             rest == SubSeq(stack, 1, Len(stack) - 1)
             ns == g.b[b].nodes
             sub == [i \in 1..Len(ns) |-> g.n[ns[i]].blocks]
             Flat[i \in 0..Len(ns)] == IF i = 0 THEN <<>> ELSE Flat[i - 1] \o sub[i]
         IN ns \o VisitBlocks(g, rest \o Flat[Len(ns)])

AllNodes(g) == VisitBlocks(g, <<0>>)

-----------------------------------------------------------------------------
(* Node classification (torch/csrc/jit/passes/quantization/helper.cpp) *)

QuantKinds == {"quantize_per_tensor", "quantize_per_channel"}

ObserverNames == {"_observer_0", "_observer_1"}

\* isSingleInputGeneralValueAtenFunction: value-preserving single-input ops
IsSingleInputGeneralValueAtenFunction(g, n) == g.n[n].kind = "avg_pool2d"

\* getFixedQParams: ops whose output always has the same qparams
HasFixedQParams(g, n) == g.n[n].kind = "sigmoid"

\* isTensorInfoNode: ops that only inspect metadata
IsTensorInfoNode(g, n) == g.n[n].kind = "size"

\* nodeQuantizable(n, QuantType::DYNAMIC)
NodeQuantizableDynamic(g, n) == g.n[n].kind = "linear"

\* isWeight(Value*): the value is the weight argument of linear
IsWeightValue(g, v) == \E u \in UseSet(g, v) : g.n[u[1]].kind = "linear" /\ u[2] = 2

\* getPassThroughInputs(v)
GetPassThroughInputs(g, v) ==
    LET n == v[1]
    IN IF g.n[n].kind \in {"avg_pool2d", "sigmoid", "flatten"} THEN <<g.n[n].ins[1]>>
       ELSE IF g.n[n].kind = "If" /\ g.n[n].nout = 1
            THEN [i \in 1..Len(g.n[n].blocks) |-> g.n[g.b[g.n[n].blocks[i]].ret].ins[1]]
       ELSE <<>>

-----------------------------------------------------------------------------
(* Free functions of insert_quant_dequant.cpp *)

QSchemes == {"per_tensor_affine", "per_tensor_symmetric",
             "per_channel_affine", "per_channel_symmetric"}

ToAffine(qscheme) ==
    CASE qscheme \in {"per_tensor_affine", "per_tensor_symmetric"} -> "per_tensor_affine"
      [] qscheme \in {"per_channel_affine", "per_channel_symmetric"} -> "per_channel_affine"
      [] OTHER -> qscheme

IsPerChannel(qscheme) == qscheme \in {"per_channel_affine", "per_channel_symmetric"}

\* isWeight(module, v): the graphs of this model hold no CallMethod on a
\* non-observer module, so the loop over CallMethod users finds no result
IsWeight(g, v) ==
    IF IsWeightValue(g, v) THEN TRUE
    ELSE LET calls == {u \in Users(g, v) : g.n[u].kind = "CallMethod"
                                             /\ g.n[u].name.q \notin {"forward"}}
         IN calls # {} /\ FALSE

\* graph->insertConstant(value)
InsertConstant(g, p, value) == InsertNode(g, p, Nd("Constant", <<>>, 1, Name(value), <<>>))

\* graph->insertGetAttr(obj, name)
InsertGetAttr(g, p, obj, name) == InsertNode(g, p, Nd("GetAttr", <<obj>>, 1, name, <<>>))

\* as InsertChooseQParams, but reduce_range is false
InsertChooseQParams_NoReduceRange(g, p, original_val) ==
    InsertNode(InsertConstant(g, p, "false"), p,
               Nd("choose_qparams", <<original_val, Out(g.next)>>, 2, Name(""), <<>>)
                   @@ [types |-> <<"float", "int">>])

\* the Constant gets id g.next, the choose_qparams node g.next + 1; types are
\* the types set on the two outputs
InsertChooseQParams(g, p, original_val) ==
    InsertNode(InsertConstant(g, p, "true"), p,
               Nd("choose_qparams", <<original_val, Out(g.next)>>, 2, Name(""), <<>>)
                   @@ [types |-> <<"float", "int">>])

InsertQuant(g, p, inputs, quant_kind) ==
    InsertNode(g, p, Nd(quant_kind, inputs, 1, Name(""), <<>>))

InsertDeQuant(g, p, quantized_val) ==
    InsertNode(g, p, Nd("dequantize", <<quantized_val>>, 1, Name(""), <<>>))

\* as DeQuantForUse, but wired with replaceInputWith: every slot of the user
\* that reads the value
DeQuantForUse_AllSlots(g, use, quantized_val) ==
    ReplaceInputWith(InsertDeQuant(g, use[1], quantized_val),
                     use[1], g.n[use[1]].ins[use[2]], Out(g.next))

\* lines 125-132: a dequantize right before the user, wired to the use's slot
DeQuantForUse(g, use, quantized_val) ==
    ReplaceInput(InsertDeQuant(g, use[1], quantized_val), use[1], use[2], Out(g.next))

RECURSIVE InsertDeQuantUses(_, _, _)
InsertDeQuantUses(g, uses, quantized_val) ==
    IF uses = <<>> THEN g
    ELSE InsertDeQuantUses(DeQuantForUse(g, Head(uses), quantized_val),
                           Tail(uses), quantized_val)

InsertDeQuantForAllUse(g, quantized_val, original_val) ==
    InsertDeQuantUses(g, Uses(g, original_val), quantized_val)

InsertQParam(g, p, quantized_input, node_kind) ==
    InsertNode(g, p, Nd(node_kind, <<quantized_input>>, 1, Name(""), <<>>))

\* the nodes get the ids g.next (Constant), + 1 (choose_qparams), + 2 (quantize)
\* and + 3 (dequantize)
InsertChooseQParamQuantDequant(g, p, original_val, dtype, quant_kind) ==
    [g |-> InsertDeQuant(
              InsertQuant(InsertChooseQParams(g, p, original_val), p,
                          <<original_val, <<g.next + 1, 1>>, <<g.next + 1, 2>>, dtype>>,
                          quant_kind),
              p, Out(g.next + 2)),
     choose_qparams |-> g.next + 1,
     quant |-> g.next + 2,
     dequant |-> g.next + 3]

RECURSIVE InsertGetAttrs(_, _, _, _)
InsertGetAttrs(g, p, self, names) ==
    IF names = <<>> THEN g
    ELSE InsertGetAttrs(InsertGetAttr(g, p, self, Head(names)), p, self, Tail(names))

\* the loop at the end of insertQuantizationOps
RECURSIVE RedirectUses(_, _, _, _, _)
RedirectUses(g, uses, keep, original_val, dequant_out) ==
    IF uses = <<>> THEN g
    ELSE LET user == Head(uses)[1]
             g1 == IF user \notin keep
                   THEN ReplaceInputWith(g, user, original_val, dequant_out)
                   ELSE g
         IN RedirectUses(g1, Tail(uses), keep, original_val, dequant_out)

\* lines 200-230 of insertQuantizationOps: the nodes it inserts after the
\* observer.  uninit is the indeterminate value the local choose_qparams keeps
\* when the static branch leaves it unassigned
InsertQuantizationNodes(g, self, observer, is_per_channel, qparam_names, quant_type, uninit) ==
    IF quant_type = "DYNAMIC" /\ ~IsWeight(g, Out(observer))
    THEN InsertChooseQParamQuantDequant(
            InsertGetAttr(g, NextNode(g, observer), self, qparam_names[Len(qparam_names)]),
            NextNode(g, observer), Out(observer), Out(g.next),
            IF is_per_channel THEN "quantize_per_channel" ELSE "quantize_per_tensor")
         @@ [dyn |-> TRUE]
    ELSE [g |-> InsertDeQuant(
                   InsertQuant(InsertGetAttrs(g, NextNode(g, observer), self, qparam_names),
                               NextNode(g, observer),
                               <<Out(observer)>> \o
                                   [i \in 1..Len(qparam_names) |-> Out(g.next + i - 1)],
                               IF is_per_channel THEN "quantize_per_channel"
                               ELSE "quantize_per_tensor"),
                   NextNode(g, observer), Out(g.next + Len(qparam_names))),
          choose_qparams |-> uninit,
          quant |-> g.next + Len(qparam_names),
          dequant |-> g.next + Len(qparam_names) + 1,
          dyn |-> FALSE]

\* lines 231-239: r holds the inserted nodes; keep are the users left on the
\* raw value
RewireObservedUses(r, g4, observer, original_val, keep) ==
    [g |-> RedirectUses(g4, Uses(g4, original_val), keep, original_val, Out(r.dequant)),
     choose_qparams |-> IF r.dyn THEN r.choose_qparams ELSE NoNode,
     quant |-> r.quant, dequant |-> r.dequant, dyn |-> r.dyn]

\* as lines 231-239, but the parameter-selection node is not kept on the raw value
FinishInsert_RedirectChoose(r, observer, original_val) ==
    RewireObservedUses(r, ReplaceAllUsesWith(r.g, Out(observer), original_val),
                       observer, original_val, {r.quant, observer})

FinishInsert(r, observer, original_val) ==
    RewireObservedUses(r, ReplaceAllUsesWith(r.g, Out(observer), original_val),
                       observer, original_val, {r.quant, observer, r.choose_qparams})

InsertQuantizationOps(g, self, observer, is_per_channel, qparam_names, quant_type, uninit) ==
    FinishInsert(
        InsertQuantizationNodes(g, self, observer, is_per_channel, qparam_names,
                                quant_type, uninit),
        observer, g.n[observer].ins[2])

\* findObserverName(v): the observer attribute name, or "" for none
FindObserverName(g, v) ==
    LET n == v[1]
    IN IF g.n[n].kind = "CallMethod" /\ g.n[n].name.q = "forward"
          /\ g.n[g.n[n].ins[1][1]].kind = "GetAttr"
          /\ g.n[g.n[n].ins[1][1]].name.q \in ObserverNames
       THEN g.n[g.n[n].ins[1][1]].name.q
       ELSE ""

-----------------------------------------------------------------------------
(* The observed graphs the pass is run on *)

Base ==
    [n |-> (0 :> Nd("Param", <<>>, 3, Name(""), <<>>))
           @@ (1 :> Nd("Return", <<>>, 0, Name(""), <<>>)),
     b |-> (0 :> [nodes |-> <<>>, ret |-> 1]),
     next |-> 2,
     err |-> ""]

App(g, nd) == InsertNode(g, g.b[0].ret, nd)

AddBlock(g, b) ==
    [g EXCEPT !.n = (g.next :> Nd("Return", <<>>, 0, Name(""), <<>>)) @@ g.n,
              !.b = (b :> [nodes |-> <<>>, ret |-> g.next]) @@ g.b,
              !.next = g.next + 1]

InBlock(g, b, nd) == InsertNode(g, g.b[b].ret, nd)

SetRet(g, b, ins) == [g EXCEPT !.n[g.b[b].ret].ins = ins]

Op(kind, ins) == Nd(kind, ins, 1, Name(""), <<>>)

\* an If node (id 2) with two blocks (return nodes 3 and 4), each computing its
\* nout outputs with conv2d (ids 5, 6 and, for two outputs, 7, 8)
IfBlocks(nout) ==
    AddBlock(AddBlock(App(Base, Nd("If", << <<0, 3>> >>, nout, Name(""), <<1, 2>>)), 1), 2)

IfProducer(nout) ==
    IF nout = 1
    THEN SetRet(SetRet(InBlock(InBlock(IfBlocks(1), 1, Op("conv2d", << <<0, 2>> >>)), 2,
                               Op("conv2d", << <<0, 2>> >>)),
                       1, <<Out(5)>>), 2, <<Out(6)>>)
    ELSE SetRet(SetRet(InBlock(InBlock(InBlock(InBlock(IfBlocks(2),
                                   1, Op("conv2d", << <<0, 2>> >>)),
                                   2, Op("conv2d", << <<0, 2>> >>)),
                                   1, Op("conv2d", << <<0, 2>> >>)),
                                   2, Op("conv2d", << <<0, 2>> >>)),
                       1, <<Out(5), Out(7)>>), 2, <<Out(6), Out(8)>>)

\* the producer of the observed activation x
WithProducer(prod) ==
    CASE prod = "input" -> [g |-> Base, x |-> <<0, 2>>, extra |-> <<>>]
      [] prod = "op" -> [g |-> App(Base, Op("conv2d", << <<0, 2>> >>)), x |-> Out(2),
                         extra |-> <<>>]
      [] prod = "if1" -> [g |-> IfProducer(1), x |-> <<2, 1>>, extra |-> <<>>]
      [] prod = "if2" -> [g |-> IfProducer(2), x |-> <<2, 1>>, extra |-> << <<2, 2>> >>]

Consumer(shape, xi, wo) ==
    CASE shape = "linear" -> Op("linear", <<xi, wo>>)
      [] shape = "add" -> Op("add", <<xi, xi>>)
      [] OTHER -> Op(shape, <<xi>>)

RECURSIVE AddConsumers(_, _, _, _, _, _)
AddConsumers(g, cons, i, xo, xraw, wo) ==
    IF i > Len(cons) THEN g
    ELSE AddConsumers(App(g, Consumer(cons[i].shape, IF cons[i].raw THEN xraw ELSE xo, wo)),
                      cons, i + 1, xo, xraw, wo)

\* the observer of x: GetAttr (id g.next) and CallMethod forward (g.next + 1)
AddObserver(g, name, x) ==
    App(App(g, Nd("GetAttr", <<SelfV>>, 1, Name(name), <<>>)),
        Nd("CallMethod", <<Out(g.next), x>>, 1, Name("forward"), <<>>))

\* self.weight (id g.next) and its observer (g.next + 1, g.next + 2)
AddWeight(g) ==
    AddObserver(App(g, Nd("GetAttr", <<SelfV>>, 1, Name("weight"), <<>>)),
                "_observer_1", Out(g.next))

HasLinear(cons) == \E i \in DOMAIN cons : cons[i].shape = "linear"

\* g holds the observer of x as its last two nodes
AddRest(g, cons, x, extra) ==
    IF HasLinear(cons)
    THEN SetRet(AddConsumers(AddWeight(g), cons, 1, Out(g.next - 1), x, Out(g.next + 2)),
                0, [i \in 1..Len(cons) |-> Out(g.next + 2 + i)] \o extra)
    ELSE SetRet(AddConsumers(g, cons, 1, Out(g.next - 1), x, Out(0)),
                0, [i \in 1..Len(cons) |-> Out(g.next + i - 1)] \o extra)

BuildFrom(p, cons) == AddRest(AddObserver(p.g, "_observer_0", p.x), cons, p.x, p.extra)

\* x = producer(...); xo = self._observer_0(x); [wo = self._observer_1(self.weight);]
\* the consumers of xo (or of x itself, for a consumer marked raw); return
BuildGraph(prod, cons) == BuildFrom(WithProducer(prod), cons)

ShapeOrder == <<"linear", "add", "flatten", "avg_pool2d", "sigmoid", "size">>

Rank(shape) == IndexIn(ShapeOrder, shape)

\* consumer lists up to max long, in one canonical order
ConsumerSeqs(shapes, raws, max) ==
    {s \in UNION {[1..k -> [shape : shapes, raw : raws]] : k \in 1..max} :
        \A i \in 1..(Len(s) - 1) :
            \/ Rank(s[i].shape) < Rank(s[i + 1].shape)
            \/ (s[i].shape = s[i + 1].shape /\ (s[i].raw => s[i + 1].raw))}

EmptyFn == [x \in {} |-> 0]

NoLast ==
    [kind |-> "none", obs |-> NoNode, x |-> <<0, 0>>, quant |-> NoNode,
     dequant |-> NoNode, choose |-> NoNode, pre |-> {}, dyn |-> FALSE, rew |-> {}]

TravOff ==
    /\ tpc = "off"
    /\ tstack = <<>>
    /\ tree = <<>>
    /\ tseen = {}
    /\ tlog = <<>>

\* what calculate_qparams of an observer can return: a value that is no tuple,
\* or a tuple of one to three elements
ResultShapes ==
    {[tuple |-> FALSE, elements |-> <<>>]}
    \cup {[tuple |-> TRUE, elements |-> e] :
              e \in UNION {[1..k -> {"Tensor", "Double"}] : k \in 1..3}}

\* every observer returns (scale, zero_point) as two tensors
WellFormedResults ==
    [o \in ObserverNames |-> [tuple |-> TRUE, elements |-> <<"Tensor", "Tensor">>]]

\* the attributes of the observed module type, in slot order: the observers
\* were added after the module's own attributes
DefaultLayout == <<Name("weight"), Name("_observer_0"), Name("_observer_1")>>

HelperInitAt(at, g, qt, n, c, layout) ==
    /\ pc = at
    /\ pass = 1
    /\ graph = g
    /\ snap = Base
    /\ quant_type_ = qt
    /\ nmod = n
    /\ cur = 1
    /\ obsIdx = 1
    /\ calib = c
    /\ attrs = [m \in 1..n |-> EmptyFn]
    /\ typeAttrs = Range(layout)
    /\ typeSlots = layout
    /\ slots = [m \in 1..n |-> layout]
    /\ slots0 = [m \in 1..n |-> layout]
    /\ removed_observer_slots_ = <<>>
    /\ cleaned = <<>>
    /\ destroy_log = <<>>
    /\ weight_to_graph_fn_ = EmptyFn
    /\ wlog = <<>>
    /\ observer_nodes_for_graph_ = <<>>
    /\ nodes_to_destroy_ = <<>>
    /\ observer_modules_to_remove_ = <<>>
    /\ qparam_name_map_for_node_ = EmptyFn
    /\ qscheme_for_graph_ = "none"
    /\ quantized_values_ = {}
    /\ handled = {}
    /\ last = NoLast

HelperInitWith(g, qt, n, c, layout) == HelperInitAt("run", g, qt, n, c, layout)

HelperInit(g, qt, n, c) == HelperInitWith(g, qt, n, c, DefaultLayout)

InitWith(g, qt, n, c) == HelperInit(g, qt, n, c) /\ TravOff

\* insertion: NumModules instances of one type share the Graph; each has its
\* own observers' calibration
Init ==
    \E qt \in {"STATIC", "DYNAMIC"}, prod \in {"input", "op"},
       cons \in ConsumerSeqs({"linear", "add", "flatten"}, BOOLEAN, MaxConsumers),
       c \in [1..NumModules -> [x : QSchemes,
                                w : {"per_tensor_affine", "per_channel_affine"},
                                res : {WellFormedResults}]] :
        /\ \A m \in 2..NumModules :
              c[m].w = c[1].w /\ c[m].x \in {"per_tensor_affine", "per_channel_affine"}
        /\ InitWith(BuildGraph(prod, cons), qt, NumModules, c)

-----------------------------------------------------------------------------
(* InsertQuantDeQuantHelper: parameter extraction and insertion *)

\* the message operand of the || inside TORCH_CHECK: a string literal is a
\* non-null pointer and converts to true
StringLiteralIsTrue == TRUE

\* checkQScheme(g, qscheme): whether the check passes, and the scheme on record
CheckQScheme(recorded, qscheme) ==
    IF recorded # "none"
    THEN [ok |-> (recorded = qscheme) \/ StringLiteralIsTrue, rec |-> recorded]
    ELSE [ok |-> TRUE, rec |-> ToAffine(qscheme)]

\* as QParamNames, but the axis comes before the zero point
QParamNames_AxisSecond(qscheme) ==
    IF IsPerChannel(qscheme) THEN <<"_scale", "_axis", "_zero_point", "_scalar_type">>
    ELSE <<"_scale", "_zero_point", "_scalar_type">>

\* the names of the QParamVector getQSchemeAndQParamVector builds, in its order
QParamNames(qscheme) ==
    IF IsPerChannel(qscheme) THEN <<"_scale", "_zero_point", "_axis", "_scalar_type">>
    ELSE <<"_scale", "_zero_point", "_scalar_type">>

\* as CheckCalculateQParamsResult, but any tuple passes
CheckCalculateQParamsResult_AnyTuple(qparams) == qparams.tuple

\* checkCalculateQParamsResult(qparams): whether the three checks pass
CheckCalculateQParamsResult(qparams) ==
    /\ qparams.tuple
    /\ Len(qparams.elements) = 2
    /\ \A i \in 1..2 : qparams.elements[i] = "Tensor"

\* the qscheme attribute of the observer module of Module instance m
ObserverQScheme(c, m, observer_name) ==
    IF observer_name = "_observer_0" THEN c[m].x ELSE c[m].w

\* the value calculate_qparams and the observer's attributes give for one qparam
QParamValue(m, observer_name, q, qscheme) ==
    [m |-> m, obs |-> observer_name, q |-> q, per_channel |-> IsPerChannel(qscheme)]

\* ivalue::Object::setSlot(slot, v): the instance's slot vector grows to hold
\* the slot; ts names the attribute of each slot
SetSlot(s, ts, slot) == IF slot > Len(s) THEN s \o SubSeq(ts, Len(s) + 1, slot) ELSE s

\* the highest slot among the first k qparams of qs, 0 for none
LastSlot(ts, map, qs, k) ==
    IF k = 0 THEN 0
    ELSE CHOOSE i \in 1..Len(ts) :
            /\ \E j \in 1..k : ts[i] = map[qs[j]]
            /\ \A j \in 1..k : IndexIn(ts, map[qs[j]]) <= i

\* as ProbeName, but the name is taken without asking module.hasattr
ProbeName_Unprobed(ta, v, q, uid) == QName(v, q, uid)

\* the uid loop of quantizeTensors: the first suffix the module has no attribute for
RECURSIVE ProbeName(_, _, _, _)
ProbeName(ta, v, q, uid) ==
    IF QName(v, q, uid) \in ta THEN ProbeName(ta, v, q, uid + 1) ELSE QName(v, q, uid)

RECURSIVE GenNames(_, _, _)
GenNames(ta, v, qs) ==
    IF qs = <<>> THEN <<>>
    ELSE LET nm == ProbeName(ta, v, Head(qs), 0)
         IN <<nm>> \o GenNames(ta \cup {nm}, v, Tail(qs))

\* where run() goes after the observer at obsIdx: the next observer, the next
\* Module instance, or the end of run()
Advance ==
    IF obsIdx < Len(observer_nodes_for_graph_)
    THEN /\ obsIdx' = obsIdx + 1
         /\ cur' = cur
         /\ pc' = pc
    ELSE /\ obsIdx' = 1
         /\ cur' = IF cur < nmod THEN cur + 1 ELSE cur
         /\ pc' = IF cur < nmod THEN "run" ELSE "cleanup"

\* as GraphSeenBefore, but the memo of processed Graphs is never hit
GraphSeenBefore_Never(observer_nodes) == FALSE

\* observer_nodes_for_graph_.count(graph.get()) in run()
GraphSeenBefore(observer_nodes) == Len(observer_nodes) > 0

\* run(), first time on the Graph: collectObserverNodesAndValueToQuantize over
\* every node output, then quantizeTensors starts
RunCollect ==
    /\ pc = "run"
    /\ ~GraphSeenBefore(observer_nodes_for_graph_)
    /\ LET observers == SelectSeq(AllNodes(graph),
                           LAMBDA n : FindObserverName(graph, Out(n)) # "")
       IN /\ observer_nodes_for_graph_' = observer_nodes_for_graph_ \o observers
          /\ nodes_to_destroy_' = nodes_to_destroy_ \o
                [i \in 1..(2 * Len(observers)) |->
                    IF i % 2 = 1 THEN observers[(i + 1) \div 2]
                    ELSE graph.n[observers[i \div 2]].ins[1][1]]
          /\ observer_modules_to_remove_' = observer_modules_to_remove_ \o
                [i \in 1..Len(observers) |-> FindObserverName(graph, Out(observers[i]))]
          /\ IF observer_nodes_for_graph_ \o observers # <<>>
             THEN pc' = "quantize" /\ cur' = cur /\ obsIdx' = 1
             ELSE /\ obsIdx' = 1
                  /\ cur' = IF cur < nmod THEN cur + 1 ELSE cur
                  /\ pc' = IF cur < nmod THEN "run" ELSE "cleanup"
    /\ last' = NoLast
    /\ UNCHANGED <<pass, graph, snap, quant_type_, nmod, calib, attrs, typeAttrs,
                   qparam_name_map_for_node_, qscheme_for_graph_, quantized_values_,
                   handled>>
    /\ UNCHANGED <<travVars, slotVars, cleanVars, weightVars>>

\* the graph insertQuantizationOps leaves, and the record of what it did
Inserted(r, n, original_value) ==
    /\ graph' = r.g
    /\ last' = [NoLast EXCEPT
          !.kind = "insert", !.obs = n, !.x = original_value,
          !.quant = r.quant, !.dequant = r.dequant,
          !.choose = r.choose_qparams, !.dyn = r.dyn,
          !.pre = UseSet(graph, original_value) \cup UseSet(graph, Out(n))]

\* one iteration of the loop of quantizeTensors
QuantizeTensor ==
    /\ pc = "quantize"
    /\ LET n == observer_nodes_for_graph_[obsIdx]
           original_value == graph.n[n].ins[2]
           observer_name == FindObserverName(graph, Out(n))
           qscheme == ObserverQScheme(calib, cur, observer_name)
           chk == CheckQScheme(qscheme_for_graph_, qscheme)
           qs == QParamNames(qscheme)
           names == GenNames(typeAttrs, original_value, qs)
       IN IF ~CheckCalculateQParamsResult(calib[cur].res[observer_name]) \/ ~chk.ok
          THEN /\ pc' = "error"
               /\ last' = NoLast
               /\ UNCHANGED <<graph, attrs, typeAttrs, qparam_name_map_for_node_,
                              qscheme_for_graph_, handled, cur, obsIdx, slotVars>>
          ELSE /\ qscheme_for_graph_' = chk.rec
               /\ typeAttrs' = typeAttrs \cup Range(names)
               /\ typeSlots' = typeSlots \o names
               /\ slots' = [slots EXCEPT ![cur] = SetSlot(@, typeSlots \o names,
                                                          Len(typeSlots \o names))]
               /\ attrs' = [attrs EXCEPT ![cur] =
                              [nm \in Range(names) |->
                                  QParamValue(cur, observer_name, nm.q, qscheme)] @@ @]
               /\ qparam_name_map_for_node_' =
                     (n :> [q \in Range(qs) |-> names[IndexIn(qs, q)]])
                     @@ qparam_name_map_for_node_
               /\ \E uninit \in DOMAIN graph.n \cup {NoNode} :
                     Inserted(InsertQuantizationOps(graph, SelfV, n, IsPerChannel(qscheme),
                                                    names, quant_type_, uninit),
                              n, original_value)
               /\ handled' = handled \cup {[m |-> cur, obs |-> n, qscheme |-> qscheme]}
               /\ Advance
    /\ UNCHANGED <<pass, snap, quant_type_, nmod, calib, observer_nodes_for_graph_,
                   nodes_to_destroy_, observer_modules_to_remove_, quantized_values_>>
    /\ UNCHANGED <<travVars, cleanVars, weightVars>>

\* how many leading qparams of qs have an entry in the node's name map
RECURSIVE KnownPrefix(_, _)
KnownPrefix(qs, map) ==
    IF qs = <<>> \/ Head(qs) \notin DOMAIN map THEN 0
    ELSE 1 + KnownPrefix(Tail(qs), map)

\* run() on a Graph already in observer_nodes_for_graph_: one iteration of the
\* loop that sets the attributes of the current Module instance
FastPathStep ==
    /\ pc = "run"
    /\ GraphSeenBefore(observer_nodes_for_graph_)
    /\ LET n == observer_nodes_for_graph_[obsIdx]
           observer_name == FindObserverName(graph, Out(n))
           qscheme == ObserverQScheme(calib, cur, observer_name)
           chk == CheckQScheme(qscheme_for_graph_, qscheme)
           qs == QParamNames(qscheme)
           map == qparam_name_map_for_node_[n]
           k == KnownPrefix(qs, map)
       IN IF ~CheckCalculateQParamsResult(calib[cur].res[observer_name]) \/ ~chk.ok
          THEN /\ pc' = "error"
               /\ UNCHANGED <<attrs, qscheme_for_graph_, handled, cur, obsIdx, slots>>
          ELSE /\ qscheme_for_graph_' = chk.rec
               /\ slots' = [slots EXCEPT ![cur] =
                                SetSlot(@, typeSlots, LastSlot(typeSlots, map, qs, k))]
               /\ attrs' = [attrs EXCEPT ![cur] =
                              [nm \in {map[qs[i]] : i \in 1..k} |->
                                  QParamValue(cur, observer_name, nm.q, qscheme)] @@ @]
               /\ handled' = handled \cup {[m |-> cur, obs |-> n, qscheme |-> qscheme]}
               /\ IF k < Len(qs)
                  THEN pc' = "error" /\ UNCHANGED <<cur, obsIdx>>
                  ELSE Advance
    /\ last' = [NoLast EXCEPT !.kind = "fast"]
    /\ UNCHANGED <<pass, graph, snap, quant_type_, nmod, calib, typeAttrs,
                   observer_nodes_for_graph_, nodes_to_destroy_,
                   observer_modules_to_remove_, qparam_name_map_for_node_,
                   quantized_values_, typeSlots>>
    /\ UNCHANGED <<travVars, cleanVars, weightVars>>

Next == RunCollect \/ QuantizeTensor \/ FastPathStep

Spec == Init /\ [][Next]_vars

-----------------------------------------------------------------------------
(* cleanup and the graph rewrites of propagateQuantizationOps(Module&) *)

Failed(g, msg) == [g EXCEPT !.err = msg]

\* as CleanupGraph, but the recorded observer nodes are left in the graph
CleanupGraph_KeepNodes(g, nodes) == g

\* cleanup(module, g), lines 613-621
CleanupGraph(g, nodes) == DestroyAll(RemoveAllInputsOf(g, nodes), nodes)

\* the calls of lines 614-619 as they happen: used tells whether an output of
\* the node still had a use when destroy() was called on it
KindOf(g, u) == IF u \in DOMAIN g.n THEN g.n[u].kind ELSE "destroyed"

RECURSIVE DestroyEvents(_, _)
DestroyEvents(g, s) ==
    IF s = <<>> THEN <<>>
    ELSE <<[op |-> "destroy", node |-> Head(s), kind |-> KindOf(g, Head(s)),
            used |-> Head(s) \in DOMAIN g.n /\ HasUses(g, Head(s))]>>
         \o DestroyEvents(Destroy(g, Head(s)), Tail(s))

CleanupEvents(g, nodes) ==
    [i \in 1..Len(nodes) |->
        [op |-> "removeAllInputs", node |-> nodes[i], kind |-> KindOf(g, nodes[i]),
         used |-> FALSE]]
    \o DestroyEvents(RemoveAllInputsOf(g, nodes), nodes)

\* as NodesLeftToDestroy, but the list is not cleared
NodesLeftToDestroy_Kept(nodes) == nodes

\* line 620: nodes_to_destroy_.at(g).clear()
NodesLeftToDestroy(nodes) == <<>>

\* ivalue::Object::unsafeRemoveSlot(slot), ClassType::unsafeRemoveAttribute
UnsafeRemoveSlot(s, slot) ==
    IF slot \in 1..Len(s) THEN SubSeq(s, 1, slot - 1) \o SubSeq(s, slot + 1, Len(s)) ELSE s

\* the TORCH_CHECK of unsafeRemoveSlot passes for every slot of the replay on
\* an instance with n slots
RECURSIVE SlotsInRange(_, _)
SlotsInRange(n, rs) == rs = <<>> \/ (Head(rs) <= n /\ SlotsInRange(n - 1, Tail(rs)))

\* as ReplaySlots, but only the first recorded slot is replayed
ReplaySlots_FirstOnly(s, rs) == IF rs = <<>> THEN s ELSE UnsafeRemoveSlot(s, Head(rs))

\* lines 627-631: the recorded slot indices, in the recorded order
RECURSIVE ReplaySlots(_, _)
ReplaySlots(s, rs) ==
    IF rs = <<>> THEN s ELSE ReplaySlots(UnsafeRemoveSlot(s, Head(rs)), Tail(rs))

\* lines 646-649 for one observer: r = [ts, s, rec] are the type's attributes,
\* the instance's slots and removed_observer_slots_
RemoveObserverAttr(r, slot) ==
    [ts |-> UnsafeRemoveSlot(r.ts, slot), s |-> UnsafeRemoveSlot(r.s, slot),
     rec |-> Append(r.rec, slot)]

\* lines 639-651: observers[i] down to observers[1]
RECURSIVE RemoveObserverAttrs(_, _, _)
RemoveObserverAttrs(r, observers, i) ==
    IF i = 0 THEN r
    ELSE IF Name(observers[i]) \in Range(r.ts)
    THEN RemoveObserverAttrs(RemoveObserverAttr(r, IndexIn(r.ts, Name(observers[i]))),
                             observers, i - 1)
    ELSE RemoveObserverAttrs(r, observers, i - 1)

\* what cleanup(module, g) leaves: c = [g, nodes, observers, ts, slots, rec, log],
\* r the result of lines 627-653 on instance m
CleanedInstance(c, m, r) ==
    [g |-> IF SlotsInRange(Len(c.slots[m]), c.rec) THEN CleanupGraph(c.g, c.nodes)
           ELSE Failed(CleanupGraph(c.g, c.nodes), "unsafeRemoveSlot: slot out of range"),
     nodes |-> NodesLeftToDestroy(c.nodes),
     observers |-> <<>>,
     ts |-> r.ts,
     slots |-> [c.slots EXCEPT ![m] = r.s],
     rec |-> r.rec,
     log |-> c.log \o CleanupEvents(c.g, c.nodes)]

\* cleanup(module, g), lines 611-655, on Module instance m
CleanupInstance(c, m) ==
    CleanedInstance(c, m,
        RemoveObserverAttrs([ts |-> c.ts, s |-> ReplaySlots(c.slots[m], c.rec), rec |-> c.rec],
                            c.observers, Len(c.observers)))

\* cleanup(module), lines 602-609, over the instances that share the Graph
RECURSIVE CleanupModules(_, _)
CleanupModules(c, order) ==
    IF order = <<>> \/ c.g.err # "" THEN c
    ELSE CleanupModules(CleanupInstance(c, Head(order)), Tail(order))

\* the orders in which module.children() can hold n instances
Orders(n) == {o \in [1..n -> 1..n] : \A i, j \in 1..n : o[i] = o[j] => i = j}

IdSeq(S) == [i \in 1..Cardinality(S) |-> SortUses({<<n, 1>> : n \in S})[i][1]]

\* a match of the pattern graph of lines 260-265 and 348-353 that ends in the
\* dequantize node d: the values inside the pattern have no use outside it
IsDynamicChain(g, d) ==
    /\ g.n[d].kind = "dequantize"
    /\ g.n[g.n[d].ins[1][1]].kind = "quantize_per_tensor"
    /\ Len(g.n[g.n[d].ins[1][1]].ins) = 4
    /\ UseSet(g, g.n[d].ins[1]) = {<<d, 1>>}
    /\ g.n[g.n[g.n[d].ins[1][1]].ins[2][1]].kind = "choose_qparams"
    /\ Len(g.n[g.n[g.n[d].ins[1][1]].ins[2][1]].ins) = 2

ChainOf(g, d) ==
    [choose_qparams |-> g.n[g.n[d].ins[1][1]].ins[2][1],
     quant |-> g.n[d].ins[1][1],
     dequant |-> d,
     a |-> g.n[g.n[d].ins[1][1]].ins[1],
     dtype |-> g.n[g.n[d].ins[1][1]].ins[4]]

ChainMatches(g, c) ==
    /\ g.n[c.quant].ins[2] = <<c.choose_qparams, 1>>
    /\ g.n[c.quant].ins[3] = <<c.choose_qparams, 2>>
    /\ g.n[c.choose_qparams].ins[1] = c.a
    /\ UseSet(g, <<c.choose_qparams, 1>>) = {<<c.quant, 2>>}
    /\ UseSet(g, <<c.choose_qparams, 2>>) = {<<c.quant, 3>>}
    /\ BlockOf(g, c.choose_qparams) = BlockOf(g, c.quant)
    /\ BlockOf(g, c.quant) = BlockOf(g, c.dequant)

\* findPatternMatches(dynamic_quant_graph, *graph), by matched dequantize node
DynamicMatches(g) ==
    {d \in DOMAIN g.n : IsDynamicChain(g, d) /\ ChainMatches(g, ChainOf(g, d))}

\* lines 300-306: one fresh chain before each user of dequant_out
RECURSIVE ReplicateChainUses(_, _, _, _)
ReplicateChainUses(g, uses, c, dequant_out) ==
    IF uses = <<>> THEN g
    ELSE ReplicateChainUses(
            ReplaceInputWith(
                InsertChooseQParamQuantDequant(g, Head(uses)[1], c.a, c.dtype,
                                               g.n[c.quant].kind).g,
                Head(uses)[1], dequant_out, Out(g.next + 3)),
            Tail(uses), c, dequant_out)

RECURSIVE ReplicateChains(_, _)
ReplicateChains(g, ds) ==
    IF ds = <<>> THEN g
    ELSE ReplicateChains(
            ReplicateChainUses(g, Uses(g, Out(Head(ds))), ChainOf(g, Head(ds)),
                               Out(Head(ds))),
            Tail(ds))

\* dequant, quant, choose_qparams of every chain, in the order of lines 309-320
RECURSIVE ChainNodes(_, _)
ChainNodes(g, ds) ==
    IF ds = <<>> THEN <<>>
    ELSE <<Head(ds), ChainOf(g, Head(ds)).quant, ChainOf(g, Head(ds)).choose_qparams>>
         \o ChainNodes(g, Tail(ds))

ChainsToReplicate(g) ==
    IdSeq({d \in DynamicMatches(g) : Cardinality(UseSet(g, Out(d))) > 1})

\* ReplicateChooseQParamsQuantDequant(graph); to_destroy is taken before the
\* rewrite, as nodes_to_rewrite is
ReplicateChooseRewrite(g, ds, to_destroy) ==
    DestroyAll(RemoveAllInputsOf(ReplicateChains(g, ds), to_destroy), to_destroy)

ReplicateChooseQParamsQuantDequantOn(g) ==
    ReplicateChooseRewrite(g, ChainsToReplicate(g), ChainNodes(g, ChainsToReplicate(g)))

\* SubgraphRewriter: every match passes through the filter first, the
\* replacements follow
RECURSIVE RewriteToInput(_, _, _)
RewriteToInput(g, ds, ins_of) ==
    IF ds = <<>> THEN g
    ELSE RewriteToInput(ReplaceAllUsesWith(g, Out(Head(ds)), ins_of[Head(ds)]),
                        Tail(ds), ins_of)

\* RemoveRedundantQuantizationOps(graph), ds the matches the filter accepts
RemoveChains(g, ds, to_destroy) ==
    DestroyAll(RemoveAllInputsOf(
                   RewriteToInput(g, ds, [d \in Range(ds) |-> ChainOf(g, d).a]),
                   to_destroy),
               to_destroy)

\* as SingleUse, but an output without any use passes as well
SingleUse_AtMostOne(g, d) == Cardinality(UseSet(g, Out(d))) <= 1

\* the TORCH_CHECK of lines 336-338 and 362-364: dequant_out->uses().size() == 1
SingleUse(g, d) == Cardinality(UseSet(g, Out(d))) = 1

\* dequant_out->uses()[0].user
TheUser(g, d) == (CHOOSE u \in UseSet(g, Out(d)) : TRUE)[1]

RedundantChains(g) ==
    IdSeq({d \in DynamicMatches(g) :
              HasUses(g, d) /\ ~NodeQuantizableDynamic(g, TheUser(g, d))})

RemoveRedundantQuantizationOpsOn(g) ==
    IF \E d \in DynamicMatches(g) : ~SingleUse(g, d)
    THEN Failed(g, "Expect dequant output to have single use")
    ELSE RemoveChains(g, RedundantChains(g), ChainNodes(g, RedundantChains(g)))

\* RemoveRedundantDequantize(graph)
RedundantDequantizes(g) ==
    IdSeq({d \in DOMAIN g.n : g.n[d].kind = "dequantize" /\ HasUses(g, d)
                              /\ IsTensorInfoNode(g, TheUser(g, d))})

RemoveDequantizes(g, ds) ==
    DestroyAll(RemoveAllInputsOf(
                   RewriteToInput(g, ds, [d \in Range(ds) |-> g.n[d].ins[1]]), ds),
               ds)

RemoveRedundantDequantizeOn(g) ==
    IF \E d \in DOMAIN g.n : g.n[d].kind = "dequantize" /\ ~SingleUse(g, d)
    THEN Failed(g, "Expect dequant output to have single use")
    ELSE RemoveDequantizes(g, RedundantDequantizes(g))

\* lines 1238-1240: a quantize node that quantizes the output of an If
QuantizesIf(g, n) ==
    /\ g.n[n].kind \in QuantKinds
    /\ g.n[g.n[n].ins[1][1]].kind = "If"

\* lines 1252-1254: the producers of the quantization parameters go before the If
RECURSIVE MoveParamsBefore(_, _, _, _)
MoveParamsBefore(g, n, i, if_node) ==
    IF i > Len(g.n[n].ins) THEN g
    ELSE MoveParamsBefore(MoveBefore(g, g.n[n].ins[i][1], if_node), n, i + 1, if_node)

\* as IfOutputsSupported, but an If with several outputs passes
IfOutputsSupported_Any(nout) == TRUE

\* if_node->output() and the TORCH_CHECK of line 1259: one output only
IfOutputsSupported(nout) == nout = 1

\* as QuantizeBlockOutput, but the new quantize node keeps reading the If output
QuantizeBlockOutput_KeepInput(g, n, b) ==
    SetRet(InsertNode(g, g.b[b].ret, Nd(g.n[n].kind, g.n[n].ins, 1, Name(""), <<>>)),
           b, <<Out(g.next)>>)

\* lines 1262-1270 for one block: a quantize of the block's return value, placed
\* before the return node, becomes the block's output
QuantizeBlockOutput(g, n, b) ==
    SetRet(InsertNode(g, g.b[b].ret,
                      Nd(g.n[n].kind,
                         <<g.n[g.b[b].ret].ins[1]>> \o Tail(g.n[n].ins),
                         1, Name(""), <<>>)),
           b, <<Out(g.next)>>)

RECURSIVE QuantizeBlockOutputs(_, _, _)
QuantizeBlockOutputs(g, n, blocks) ==
    IF blocks = <<>> THEN g
    ELSE QuantizeBlockOutputs(QuantizeBlockOutput(g, n, Head(blocks)), n, Tail(blocks))

\* lines 1249-1271 for one quantize node; g has the parameter producers moved
ReplicateIntoBlocks(g, n, if_node) ==
    IF ~IfOutputsSupported(g.n[if_node].nout)
    THEN Failed(g, "replicate quantize only works for if node with one output right now")
    ELSE QuantizeBlockOutputs(ReplaceAllUsesWith(g, Out(n), Out(if_node)), n,
                              g.n[if_node].blocks)

RECURSIVE ReplicateQuants(_, _)
ReplicateQuants(g, ns) ==
    IF ns = <<>> \/ g.err # "" THEN g
    ELSE ReplicateQuants(
            ReplicateIntoBlocks(MoveParamsBefore(g, Head(ns), 2, g.n[Head(ns)].ins[1][1]),
                                Head(ns), g.n[Head(ns)].ins[1][1]),
            Tail(ns))

\* lines 1274-1279, not reached after an error
DestroyRewritten(g, ns) ==
    IF g.err # "" THEN g ELSE DestroyAll(RemoveAllInputsOf(g, ns), ns)

\* lines 1232-1247: quant_nodes_to_rewrite
QuantNodesToRewrite(g) == SelectSeq(AllNodes(g), LAMBDA n : QuantizesIf(g, n))

\* ReplicateQuant(graph)
ReplicateQuantOn(g) ==
    DestroyRewritten(ReplicateQuants(g, QuantNodesToRewrite(g)),
                     QuantNodesToRewrite(g))

\* lines 1290-1291
DequantWithSeveralUses(g, n) ==
    /\ g.n[n].kind = "dequantize"
    /\ Cardinality(UseSet(g, Out(n))) > 1

RECURSIVE ReplicateDeQuants(_, _)
ReplicateDeQuants(g, ns) ==
    IF ns = <<>> THEN g
    ELSE ReplicateDeQuants(InsertDeQuantForAllUse(g, g.n[Head(ns)].ins[1], Out(Head(ns))),
                           Tail(ns))

\* lines 1285-1298: dequant_nodes_to_rewrite
DequantNodesToRewrite(g) == SelectSeq(AllNodes(g), LAMBDA n : DequantWithSeveralUses(g, n))

\* ReplicateDeQuant(graph)
ReplicateDeQuantOn(g) ==
    DestroyRewritten(ReplicateDeQuants(g, DequantNodesToRewrite(g)),
                     DequantNodesToRewrite(g))

\* getClampScalarInputUse(v): v is the min or max argument of a clamp
GetClampScalarInputUse(g, v) ==
    \E u \in UseSet(g, v) : g.n[u[1]].kind \in {"clamp", "hardtanh"} /\ u[2] \in {2, 3}

\* lines 383-385
ClampScalarWithSeveralUses(g, n) ==
    \E k \in 1..g.n[n].nout :
        GetClampScalarInputUse(g, <<n, k>>) /\ Cardinality(UseSet(g, <<n, k>>)) > 1

\* lines 394-401: a clone of n before each user
RECURSIVE CloneForUses(_, _, _)
CloneForUses(g, n, uses) ==
    IF uses = <<>> THEN g
    ELSE CloneForUses(ReplaceInput(InsertNode(g, Head(uses)[1], g.n[n]),
                                   Head(uses)[1], Head(uses)[2], Out(g.next)),
                      n, Tail(uses))

RECURSIVE ReplicateScalars(_, _)
ReplicateScalars(g, ns) ==
    IF ns = <<>> THEN g
    ELSE ReplicateScalars(CloneForUses(g, Head(ns), Uses(g, Out(Head(ns)))), Tail(ns))

\* lines 377-391: scalar_nodes_to_rewrite
ScalarNodesToRewrite(g) == SelectSeq(AllNodes(g), LAMBDA n : ClampScalarWithSeveralUses(g, n))

\* ReplicateClampScalarArgs(graph)
ReplicateClampScalarArgsOn(g) ==
    DestroyRewritten(ReplicateScalars(g, ScalarNodesToRewrite(g)),
                     ScalarNodesToRewrite(g))

-----------------------------------------------------------------------------
(* propagateQuantizationOps on a Block: st = [g, qv], qv is quantized_values_ *)

\* getDequantizedInputs(output): the pass-through inputs, or <<>> for nullopt
GetDequantizedInputs(g, output) ==
    IF /\ Len(GetPassThroughInputs(g, output)) > 0
       /\ \A i \in DOMAIN GetPassThroughInputs(g, output) :
             g.n[GetPassThroughInputs(g, output)[i][1]].kind = "dequantize"
    THEN GetPassThroughInputs(g, output)
    ELSE <<>>

\* lines 892-894: after the later of the node of the quantized input and n
PropagateInsertPoint(g, n, quantized_input_node) ==
    IF IsAfter(g, quantized_input_node, n) THEN NextNode(g, quantized_input_node)
    ELSE NextNode(g, n)

\* lines 897-930: the three nodes that give scale, zero point and dtype, with ids
\* g.next .. g.next + 2: constants of the fixed table, or accessors on the
\* quantized input
InsertQParamNodes(g, p, quantized_input, fixed) ==
    IF fixed
    THEN InsertConstant(InsertConstant(InsertConstant(g, p, "_scale"), p, "_zero_point"),
                        p, "_scalar_type")
    ELSE InsertQParam(InsertQParam(InsertQParam(g, p, quantized_input, "q_scale"),
                                   p, quantized_input, "q_zero_point"),
                      p, quantized_input, "dtype")

\* as QuantizeOutput, but every use of the output is rewired, the quantize node's
\* as well
QuantizeOutput_AllUses(g, p, original_output, next0) ==
    InsertDeQuantForAllUse(
        ReplaceAllUsesWith(
            InsertQuant(g, p,
                        <<original_output, Out(next0), Out(next0 + 1), Out(next0 + 2)>>,
                        "quantize_per_tensor"),
            original_output, Out(next0 + 3)),
        Out(next0 + 3), Out(next0 + 3))

\* lines 931-938; the quantize node gets id next0 + 3
QuantizeOutput(g, p, original_output, next0) ==
    InsertDeQuantForAllUse(
        ReplaceAllUsesAfterNodeWith(
            InsertQuant(g, p,
                        <<original_output, Out(next0), Out(next0 + 1), Out(next0 + 2)>>,
                        "quantize_per_tensor"),
            original_output, next0 + 3, Out(next0 + 3)),
        Out(next0 + 3), Out(next0 + 3))

\* line 947: the outputs of the dequantize nodes just inserted
Registered(g, qv, next0) ==
    [g |-> g, qv |-> qv \cup {Out(d) : d \in (next0 + 4)..(g.next - 1)}]

PropagateAt(st, p, original_output, quantized_input, fixed) ==
    Registered(QuantizeOutput(InsertQParamNodes(st.g, p, quantized_input, fixed),
                              p, original_output, st.g.next),
               st.qv, st.g.next)

\* propagateQParams(original_output, inputs, false, qparams_opt)
PropagateQParams(st, original_output, inputs, fixed) ==
    PropagateAt(st,
                PropagateInsertPoint(st.g, original_output[1],
                                     st.g.n[inputs[1][1]].ins[1][1]),
                original_output, st.g.n[inputs[1][1]].ins[1], fixed)

\* removeDequantizeFromInputs(inputs)
RECURSIVE RemoveDequantizeFromInputs(_, _)
RemoveDequantizeFromInputs(g, inputs) ==
    IF inputs = <<>> \/ g.err # "" THEN g
    ELSE IF Cardinality(UseSet(g, Head(inputs))) # 1
    THEN Failed(g, "Expect to have one dequantize node for each use")
    ELSE RemoveDequantizeFromInputs(
            Destroy(RemoveAllInputs(
                        ReplaceAllUsesWith(g, Head(inputs), g.n[Head(inputs)[1]].ins[1]),
                        Head(inputs)[1]),
                    Head(inputs)[1]),
            Tail(inputs))

\* lines 1043-1054: the outputs of n to dequantize
OutputsToDequantize(st, n) ==
    {k \in 1..st.g.n[n].nout :
        <<n, k>> \notin st.qv /\ GetDequantizedInputs(st.g, <<n, k>>) # <<>>}

DequantizedInputs(st, n) ==
    UNION {Range(GetDequantizedInputs(st.g, <<n, k>>)) : k \in OutputsToDequantize(st, n)}

RECURSIVE InsertDeQuantForOutputs(_, _)
InsertDeQuantForOutputs(g, outputs) ==
    IF outputs = <<>> \/ g.err # "" THEN g
    ELSE InsertDeQuantForOutputs(InsertDeQuantForAllUse(g, Head(outputs), Head(outputs)),
                                 Tail(outputs))

\* as SwapDequantize, but the outputs of n get no dequantize node
SwapDequantize_InputsOnly(st, n) ==
    [g |-> RemoveDequantizeFromInputs(st.g, SortUses(DequantizedInputs(st, n))),
     qv |-> st.qv]

\* lines 1040-1060
SwapDequantize(st, n) ==
    [g |-> InsertDeQuantForOutputs(
              RemoveDequantizeFromInputs(st.g, SortUses(DequantizedInputs(st, n))),
              SortUses({<<n, k>> : k \in OutputsToDequantize(st, n)})),
     qv |-> st.qv]

\* as PropagateNode, but propagateQParams is called a second time on the output
PropagateNode_Twice(st, n) ==
    IF st.g.err # "" THEN st
    ELSE IF IsSingleInputGeneralValueAtenFunction(st.g, n) \/ HasFixedQParams(st.g, n)
    THEN IF Out(n) \notin st.qv /\ GetDequantizedInputs(st.g, Out(n)) # <<>>
         THEN PropagateQParams(
                  PropagateQParams(st, Out(n), GetDequantizedInputs(st.g, Out(n)),
                                   HasFixedQParams(st.g, n)),
                  Out(n), GetDequantizedInputs(st.g, Out(n)), HasFixedQParams(st.g, n))
         ELSE st
    ELSE SwapDequantize(st, n)

\* lines 1002-1061 for a node with one output; the ops of this model are not
\* clamp ops
PropagateNode(st, n) ==
    IF st.g.err # "" THEN st
    ELSE IF IsSingleInputGeneralValueAtenFunction(st.g, n) \/ HasFixedQParams(st.g, n)
    THEN IF Out(n) \notin st.qv /\ GetDequantizedInputs(st.g, Out(n)) # <<>>
         THEN PropagateQParams(st, Out(n), GetDequantizedInputs(st.g, Out(n)),
                               HasFixedQParams(st.g, n))
         ELSE st
    ELSE SwapDequantize(st, n)

RECURSIVE PropagateFrom(_, _)
RECURSIVE PropagateBlocks(_, _)

\* lines 989-1001: the sub-blocks of an If first
PropagateVisit(st, n) ==
    IF st.g.n[n].kind = "If"
    THEN IF st.g.n[n].nout # 1
         THEN PropagateBlocks(st, st.g.n[n].blocks)
         ELSE PropagateNode(PropagateBlocks(st, st.g.n[n].blocks), n)
    ELSE PropagateNode(st, n)

\* the loop over block->nodes() is over the live node list: it goes on with the
\* node that follows n after n was handled
StepAfter(st, n) == PropagateFrom(st, NextNode(st.g, n))

PropagateFrom(st, n) ==
    IF st.g.n[n].kind = "Return" \/ st.g.err # "" THEN st
    ELSE StepAfter(PropagateVisit(st, n), n)

FirstNode(g, b) == IF g.b[b].nodes = <<>> THEN g.b[b].ret ELSE g.b[b].nodes[1]

PropagateBlocks(st, blocks) ==
    IF blocks = <<>> THEN st
    ELSE PropagateBlocks(PropagateFrom(st, FirstNode(st.g, Head(blocks))), Tail(blocks))

RECURSIVE VisitsFrom(_, _)

\* the visits that follow the visit of n, which left st2
VisitsAfter(st2, n) == VisitsFrom(st2, NextNode(st2.g, n))

\* the iterations of the loop over block->nodes() from n on: the node each one
\* handles and the graph and quantized_values_ it finds; the last entry is the
\* end of the loop
VisitsFrom(st, n) ==
    IF st.g.n[n].kind = "Return" \/ st.g.err # "" THEN <<[st |-> st, n |-> n]>>
    ELSE <<[st |-> st, n |-> n]>> \o VisitsAfter(PropagateVisit(st, n), n)

\* propagateQuantizationOps(graph->block())
PropagateQuantizationOpsOn(g, qv) == PropagateFrom([g |-> g, qv |-> qv], FirstNode(g, 0))

-----------------------------------------------------------------------------
(* InsertQuantDeQuant as a whole: run, cleanup, propagateQuantizationOps(Module&), *)
(* and a second invocation on the Module the first one returned                  *)

helperVars == <<quant_type_, nmod, cur, obsIdx, calib, attrs, observer_nodes_for_graph_,
                qparam_name_map_for_node_, qscheme_for_graph_, handled>>

\* the state cleanup leaves: c is the result of CleanupModules
Cleaned(c, order) ==
    /\ graph' = c.g
    /\ nodes_to_destroy_' = c.nodes
    /\ observer_modules_to_remove_' = c.observers
    /\ typeSlots' = c.ts
    /\ typeAttrs' = Range(c.ts)
    /\ slots' = c.slots
    /\ removed_observer_slots_' = c.rec
    /\ destroy_log' = c.log
    /\ cleaned' = order
    /\ pc' = IF c.g.err # "" THEN "error" ELSE "ReplicateChooseQParamsQuantDequant"

\* h.cleanup(module)
Cleanup ==
    /\ pc = "cleanup"
    /\ \E order \in Orders(nmod) :
          Cleaned(CleanupModules([g |-> graph, nodes |-> nodes_to_destroy_,
                                  observers |-> observer_modules_to_remove_,
                                  ts |-> typeSlots, slots |-> slots,
                                  rec |-> removed_observer_slots_, log |-> destroy_log],
                                 order),
                  order)
    /\ slots0' = slots
    /\ last' = [NoLast EXCEPT !.kind = "cleanup"]
    /\ UNCHANGED <<pass, snap, quantized_values_>>
    /\ UNCHANGED helperVars
    /\ UNCHANGED <<travVars, weightVars>>

\* one call of the sequence of lines 1186-1192: g2 is the graph it leaves
Rewrite(from, to, g2, rew) ==
    /\ pc = from
    /\ graph' = g2
    /\ pc' = IF g2.err # "" THEN "error" ELSE to
    /\ last' = [NoLast EXCEPT !.kind = from, !.rew = rew]
    /\ UNCHANGED <<pass, snap, typeAttrs, nodes_to_destroy_, observer_modules_to_remove_>>
    /\ UNCHANGED helperVars
    /\ UNCHANGED <<travVars, slotVars, cleanVars, weightVars>>

ReplicateChooseQParamsQuantDequant ==
    /\ Rewrite("ReplicateChooseQParamsQuantDequant", "RemoveRedundantQuantizationOps",
               ReplicateChooseQParamsQuantDequantOn(graph),
               {[chain |-> ChainOf(graph, d), uses |-> UseSet(graph, Out(d)),
                 next0 |-> graph.next] : d \in Range(ChainsToReplicate(graph))})
    /\ UNCHANGED quantized_values_

RemoveRedundantQuantizationOps ==
    /\ Rewrite("RemoveRedundantQuantizationOps", "ReplicateQuant",
               RemoveRedundantQuantizationOpsOn(graph), {})
    /\ UNCHANGED quantized_values_

ReplicateQuant ==
    /\ Rewrite("ReplicateQuant", "ReplicateDeQuant", ReplicateQuantOn(graph),
               {[quant |-> n, if_node |-> graph.n[n].ins[1][1],
                 params |-> {graph.n[n].ins[i][1] : i \in 2..Len(graph.n[n].ins)},
                 nodes0 |-> DOMAIN graph.n] :
                    n \in Range(QuantNodesToRewrite(graph))})
    /\ UNCHANGED quantized_values_

ReplicateDeQuant ==
    /\ Rewrite("ReplicateDeQuant", "ReplicateClampScalarArgs", ReplicateDeQuantOn(graph),
               {[node |-> n, uses |-> UseSet(graph, Out(n)), quantized_val |-> graph.n[n].ins[1],
                 next0 |-> graph.next] :
                    n \in Range(DequantNodesToRewrite(graph))})
    /\ UNCHANGED quantized_values_

ReplicateClampScalarArgs ==
    /\ Rewrite("ReplicateClampScalarArgs", "propagateQuantizationOps",
               ReplicateClampScalarArgsOn(graph), {})
    /\ UNCHANGED quantized_values_

Propagated(st) ==
    /\ Rewrite("propagateQuantizationOps", "RemoveRedundantDequantize", st.g, {})
    /\ quantized_values_' = st.qv

PropagateQuantizationOps ==
    /\ pc = "propagateQuantizationOps"
    /\ Propagated(PropagateQuantizationOpsOn(graph, quantized_values_))

RemoveRedundantDequantize ==
    /\ Rewrite("RemoveRedundantDequantize", "done", RemoveRedundantDequantizeOn(graph), {})
    /\ UNCHANGED quantized_values_

\* InsertQuantDeQuant is called again on the Module it returned: a new helper,
\* the same graph, attributes and calibration state
SecondInvocation ==
    /\ pc = "done"
    /\ pass = 1
    /\ pass' = 2
    /\ snap' = graph
    /\ pc' = "run"
    /\ cur' = 1
    /\ obsIdx' = 1
    /\ observer_nodes_for_graph_' = <<>>
    /\ nodes_to_destroy_' = <<>>
    /\ observer_modules_to_remove_' = <<>>
    /\ qparam_name_map_for_node_' = EmptyFn
    /\ qscheme_for_graph_' = "none"
    /\ quantized_values_' = {}
    /\ last' = NoLast
    /\ removed_observer_slots_' = <<>>
    /\ cleaned' = <<>>
    /\ destroy_log' = <<>>
    /\ weight_to_graph_fn_' = EmptyFn
    /\ UNCHANGED <<graph, quant_type_, nmod, calib, attrs, typeAttrs, handled, slots0, wlog>>
    /\ UNCHANGED <<travVars, slotVars>>

\* one Module with one method; the observed activation is an op's or an If's
\* output
InitPass ==
    \E qt \in {"STATIC", "DYNAMIC"}, prod \in {"op", "if1", "if2"},
       cons \in ConsumerSeqs(Range(ShapeOrder), {FALSE}, MaxPassConsumers),
       c \in [1..1 -> [x : {"per_tensor_affine", "per_channel_affine"},
                       w : {"per_tensor_affine"}, res : {WellFormedResults}]] :
        InitWith(BuildGraph(prod, cons), qt, 1, c)

NextPass ==
    \/ RunCollect
    \/ QuantizeTensor
    \/ Cleanup
    \/ ReplicateChooseQParamsQuantDequant
    \/ RemoveRedundantQuantizationOps
    \/ ReplicateQuant
    \/ ReplicateDeQuant
    \/ ReplicateClampScalarArgs
    \/ PropagateQuantizationOps
    \/ RemoveRedundantDequantize
    \/ SecondInvocation

SpecPass == InitPass /\ [][NextPass]_vars

\* the orders in which the ClassType can declare its three attributes
Layouts == {l \in [1..3 -> Range(DefaultLayout)] : \A i, j \in 1..3 : l[i] = l[j] => i = j}

\* NumModules instances of one type share the Graph x = conv2d(input);
\* linear(observed x, observed self.weight); the observer o0 of instance m0
\* returns any of the result shapes from calculate_qparams
InitInstances ==
    \E qt \in {"STATIC", "DYNAMIC"}, layout \in Layouts,
       w \in {"per_tensor_affine", "per_channel_affine"},
       m0 \in 1..NumModules, o0 \in ObserverNames, shape \in ResultShapes :
        /\ HelperInitWith(BuildGraph("op", <<[shape |-> "linear", raw |-> FALSE]>>),
                          qt, NumModules,
                          [m \in 1..NumModules |->
                              [x |-> "per_tensor_affine", w |-> w,
                               res |-> IF m = m0 THEN (o0 :> shape) @@ WellFormedResults
                                       ELSE WellFormedResults]],
                          layout)
        /\ TravOff

\* run() over the instances, then cleanup
NextInstances == RunCollect \/ QuantizeTensor \/ FastPathStep \/ Cleanup

SpecInstances == InitInstances /\ [][NextInstances]_vars

\* the sequences of instances cleanup(module) can reach when an instance may be
\* a child of the module tree more than once: every instance is reached, and
\* up to MaxRevisits of the calls reach an instance again
Reached(n) ==
    UNION {{o \in [1..(n + k) -> 1..n] : \A m \in 1..n : \E i \in 1..(n + k) : o[i] = m}
           : k \in 0..MaxRevisits}

\* h.cleanup(module) on such a module tree: lines 602-609 keep no record of the
\* instances they have taken
CleanupShared ==
    /\ pc = "cleanup"
    /\ \E order \in Reached(nmod) :
          Cleaned(CleanupModules([g |-> graph, nodes |-> nodes_to_destroy_,
                                  observers |-> observer_modules_to_remove_,
                                  ts |-> typeSlots, slots |-> slots,
                                  rec |-> removed_observer_slots_, log |-> destroy_log],
                                 order),
                  order)
    /\ slots0' = slots
    /\ last' = [NoLast EXCEPT !.kind = "cleanup"]
    /\ UNCHANGED <<pass, snap, quantized_values_>>
    /\ UNCHANGED helperVars
    /\ UNCHANGED <<travVars, weightVars>>

\* run() over the instances, then cleanup over the module tree
NextShared == RunCollect \/ QuantizeTensor \/ FastPathStep \/ CleanupShared

SpecShared == InitInstances /\ [][NextShared]_vars

\* n users of the Value o appended to g: each reads o once, or in both of its
\* inputs when two holds
RECURSIVE AddUsers(_, _, _, _)
AddUsers(g, o, n, two) ==
    IF n = 0 THEN g
    ELSE AddUsers(App(g, IF two THEN Op("add", <<o, o>>) ELSE Op("conv2d", <<o>>)),
                  o, n - 1, two)

\* the ops of the chain from the i-th on, the first reading input, each with its
\* users; the graph returns the output of the last
RECURSIVE AddOps(_, _, _, _, _, _)
AddOps(g, ops, users, two, i, input) ==
    IF i > Len(ops) THEN SetRet(g, 0, <<input>>)
    ELSE AddOps(AddUsers(App(g, Op(ops[i], <<input>>)), Out(g.next), users[i], two),
                ops, users, two, i + 1, Out(g.next))

\* x = conv2d(input) (id 2), its qparams read off self (3, 4, 5), its quantize
\* (6) and the dequantize in front of the first op (7)
QuantizedProducer ==
    App(App(App(App(App(App(Base, Op("conv2d", << <<0, 2>> >>)),
                        Nd("GetAttr", <<SelfV>>, 1, QName(Out(2), "_scale", 0), <<>>)),
                    Nd("GetAttr", <<SelfV>>, 1, QName(Out(2), "_zero_point", 0), <<>>)),
                Nd("GetAttr", <<SelfV>>, 1, QName(Out(2), "_scalar_type", 0), <<>>)),
            Nd("quantize_per_tensor", <<Out(2), Out(3), Out(4), Out(5)>>, 1, Name(""), <<>>)),
        Op("dequantize", <<Out(6)>>))

\* a graph as insertion and the rewrites before propagation leave it: a
\* quantized Value read through a dequantize by a chain of ops
PropagateGraph(ops, users, two) == AddOps(QuantizedProducer, ops, users, two, 1, Out(7))

InitPropagate ==
    \E k \in 1..MaxChain, two \in BOOLEAN :
        \E ops \in [1..k -> {"avg_pool2d", "sigmoid", "flatten"}],
           users \in [1..k -> 0..MaxUsers] :
            /\ HelperInitAt("propagateQuantizationOps", PropagateGraph(ops, users, two),
                            "STATIC", 1,
                            [m \in 1..1 |->
                                [x |-> "per_tensor_affine", w |-> "per_tensor_affine",
                                 res |-> WellFormedResults]],
                            DefaultLayout)
            /\ TravOff

NextPropagate == PropagateQuantizationOps \/ RemoveRedundantDequantize

SpecPropagate == InitPropagate /\ [][NextPropagate]_vars

\* names of the form quantizeTensors generates for the observed activation of
\* BuildGraph("op", ...), in the order the module holds them
TakenCandidates ==
    [i \in 1..(2 * MaxTaken) |->
        QName(Out(2), IF i % 2 = 1 THEN "_scale" ELSE "_zero_point", (i - 1) \div 2)]

\* insertion on a type that has, before the pass, attributes named like the
\* names quantizeTensors generates
InitNames ==
    \E qt \in {"STATIC", "DYNAMIC"}, taken \in SUBSET Range(TakenCandidates),
       x \in {"per_tensor_affine", "per_channel_affine"} :
        /\ HelperInitWith(BuildGraph("op", <<[shape |-> "linear", raw |-> FALSE]>>),
                          qt, NumModules,
                          [m \in 1..NumModules |->
                              [x |-> x, w |-> "per_tensor_affine",
                               res |-> WellFormedResults]],
                          DefaultLayout
                              \o SelectSeq(TakenCandidates, LAMBDA nm : nm \in taken))
        /\ TravOff

NextNames == RunCollect \/ QuantizeTensor \/ FastPathStep

SpecNames == InitNames /\ [][NextNames]_vars

-----------------------------------------------------------------------------
(* The order in which run() and cleanup() reach the methods of a module tree.  *)
(* tree[m] = [parent, type, called]: Module instance m is an attribute of its  *)
(* parent, type is its ClassType (one forward method, one Graph per type), and *)
(* called tells whether the parent's forward holds a CallMethod on it.  tlog   *)
(* records the stages as they happen: [stage, g, m].                           *)

Children(t, m) == SelectSeq([i \in 1..Len(t) |-> i], LAMBDA c : t[c].parent = m)

\* getInvokedMethods(module, "forward"): the children the graph calls forward on
GetInvokedMethods(t, m) == SelectSeq(Children(t, m), LAMBDA c : t[c].called)

ChildSignature(t, m) ==
    [i \in 1..Len(Children(t, m)) |->
        <<t[Children(t, m)[i]].type, t[Children(t, m)[i]].called>>]

\* instances of one type share one Graph and one attribute layout; a type does
\* not contain itself
WellTyped(t) ==
    /\ t[1].parent = 0
    /\ \A m \in 2..Len(t) : t[m].parent \in 1..(m - 1) /\ t[m].type # t[t[m].parent].type
    /\ \A a, b \in 1..Len(t) : t[a].type = t[b].type => ChildSignature(t, a) = ChildSignature(t, b)

\* the trees of k modules in which a module follows its parent and a type is
\* numbered no higher than the first module that has it
RECURSIVE TreesOfSize(_)
TreesOfSize(k) ==
    IF k = 1
    THEN {<<[parent |-> 0, type |-> 1, called |-> TRUE]>>}
    ELSE {Append(t, r) : t \in TreesOfSize(k - 1),
                         r \in [parent : 1..(k - 1), type : 1..k, called : BOOLEAN]}

ModuleTrees ==
    {t \in UNION {TreesOfSize(k) : k \in 1..MaxTreeModules} : WellTyped(t)}

Frame(m) == [m |-> m, i |-> 1, own |-> FALSE]

Top(stack) == stack[Len(stack)]

Pop(stack) == SubSeq(stack, 1, Len(stack) - 1)

SetTop(stack, f) == [stack EXCEPT ![Len(stack)] = f]

Event(stage, g, m) == [stage |-> stage, g |-> g, m |-> m]

\* as OwnGraphTurn, but a method's own graph is handled before the methods it
\* invokes
OwnGraphTurn_BeforeInvoked(i, n, own) == ~own

\* run(): the own graph's turn comes after the loop over the invoked methods
OwnGraphTurn(i, n, own) == ~own /\ i > n

InitTraverse ==
    /\ HelperInit(Base, "STATIC", 1, <<[x |-> "per_tensor_affine", w |-> "per_tensor_affine",
                                        res |-> WellFormedResults]>>)
    /\ tree \in ModuleTrees
    /\ tpc = "run"
    /\ tstack = <<Frame(1)>>
    /\ tseen = {}
    /\ tlog = <<>>

\* run(), lines 1110-1114: the recursive call on the next invoked method
RunInvoked ==
    /\ tpc = "run"
    /\ tstack # <<>>
    /\ LET f == Top(tstack)
           invoked == GetInvokedMethods(tree, f.m)
       IN /\ ~OwnGraphTurn(f.i, Len(invoked), f.own)
          /\ f.i <= Len(invoked)
          /\ tstack' = Append(SetTop(tstack, [f EXCEPT !.i = f.i + 1]), Frame(invoked[f.i]))
    /\ UNCHANGED <<tpc, tree, tseen, tlog>>
    /\ UNCHANGED passVars

\* run(), lines 1116-1178, on the method's own graph: the attribute values only
\* for a graph already handled, else observer location, parameter extraction
\* and insertion
RunOwnGraph ==
    /\ tpc = "run"
    /\ tstack # <<>>
    /\ LET f == Top(tstack)
           g == tree[f.m].type
       IN /\ OwnGraphTurn(f.i, Len(GetInvokedMethods(tree, f.m)), f.own)
          /\ tlog' = IF g \in tseen
                     THEN Append(tlog, Event("extract", g, f.m))
                     ELSE tlog \o <<Event("locate", g, f.m), Event("extract", g, f.m),
                                    Event("insert", g, f.m)>>
          /\ tseen' = tseen \cup {g}
          /\ tstack' = SetTop(tstack, [f EXCEPT !.own = TRUE])
    /\ UNCHANGED <<tpc, tree>>
    /\ UNCHANGED passVars

\* run() returns; after the top-level call h.cleanup(module) starts
RunReturn ==
    /\ tpc = "run"
    /\ tstack # <<>>
    /\ LET f == Top(tstack)
       IN /\ f.own
          /\ f.i > Len(GetInvokedMethods(tree, f.m))
    /\ tstack' = IF Len(tstack) = 1 THEN <<1>> ELSE Pop(tstack)
    /\ tpc' = IF Len(tstack) = 1 THEN "cleanup" ELSE "run"
    /\ UNCHANGED <<tree, tseen, tlog>>
    /\ UNCHANGED passVars

Reverse(s) == [i \in 1..Len(s) |-> s[Len(s) + 1 - i]]

\* cleanup(module): the module's own methods, then its children in order
CleanupModule ==
    /\ tpc = "cleanup"
    /\ tstack # <<>>
    /\ tlog' = Append(tlog, Event("cleanup", tree[Top(tstack)].type, Top(tstack)))
    /\ tstack' = Pop(tstack) \o Reverse(Children(tree, Top(tstack)))
    /\ tpc' = IF tstack' = <<>> THEN "done" ELSE "cleanup"
    /\ UNCHANGED <<tree, tseen>>
    /\ UNCHANGED passVars

NextTraverse == RunInvoked \/ RunOwnGraph \/ RunReturn \/ CleanupModule

SpecTraverse == InitTraverse /\ [][NextTraverse]_vars

-----------------------------------------------------------------------------
(* runWeightObserver: in dynamic mode the observers of the weights are run   *)
(* before insertion, each on a function cloned from the nodes that compute   *)
(* the weight.  wlog has one record per call of extractAndRunWeightObserver: *)
(* [v, module, built, ran], ran being what GraphFunction::run was called on. *)

\* how the weight of a linear is computed from self
WeightProducers == {"attr", "shared", "diamond", "constant", "input"}

WeightObserverNames == <<"_observer_0", "_observer_1">>

WeightAttr == Nd("GetAttr", <<SelfV>>, 1, Name("weight"), <<>>)

\* the nodes that compute a weight, appended to g; the last one gives the weight
AddWeightProducer(g, shape) ==
    CASE shape = "attr" -> App(g, WeightAttr)
      [] shape = "shared" ->
            App(App(g, WeightAttr), Op("add", <<Out(g.next), Out(g.next)>>))
      [] shape = "diamond" ->
            App(App(App(App(g, WeightAttr), Op("t", <<Out(g.next)>>)),
                    Op("relu", <<Out(g.next)>>)),
                Op("add", <<Out(g.next + 1), Out(g.next + 2)>>))
      [] shape = "constant" ->
            App(App(App(g, WeightAttr), Nd("Constant", <<>>, 1, Name("2"), <<>>)),
                Op("mul", <<Out(g.next), Out(g.next + 1)>>))
      [] shape = "input" -> App(g, Op("t", << <<0, 2>> >>))

\* g1 ends with the nodes that compute a weight: its observer and the linear
\* that reads the observed weight
AddObservedLinear(g1, name) ==
    App(AddObserver(g1, name, Out(g1.next - 1)),
        Op("linear", << <<0, 2>>, Out(g1.next + 1) >>))

RECURSIVE AddLinears(_, _, _)
AddLinears(g, shapes, i) ==
    IF i > Len(shapes) THEN g
    ELSE AddLinears(AddObservedLinear(AddWeightProducer(g, shapes[i]),
                                      WeightObserverNames[i]),
                    shapes, i + 1)

ReturnLast(g) == [g EXCEPT !.n[g.b[0].ret].ins = <<Out(g.next - 1)>>]

\* one linear per entry of shapes, each with an observed weight of its own
WeightGraph(shapes) == ReturnLast(AddLinears(Base, shapes, 1))

\* lines 1077-1098 of runWeightObserver: the observed weight Values of the graph
WeightValues(g) ==
    {Out(n) : n \in {m \in Range(AllNodes(g)) :
                        FindObserverName(g, Out(m)) # "" /\ IsWeight(g, Out(m))}}

\* hitGraphInput(v)
HitGraphInput(g, v) == g.n[v[1]].kind = "Param"

RECURSIVE FindSubgraph(_, _)
RECURSIVE FindSubgraphOfInputs(_, _)

\* the loop over the inputs of a node in findSubgraph
FindSubgraphOfInputs(g, inputs) ==
    IF inputs = <<>> THEN <<>>
    ELSE (IF HitGraphInput(g, Head(inputs)) THEN <<>> ELSE FindSubgraph(g, Head(inputs)))
         \o FindSubgraphOfInputs(g, Tail(inputs))

\* findSubgraph(self, input_val, weight_subgraph): what it appends
FindSubgraph(g, input_val) ==
    <<input_val[1]>> \o FindSubgraphOfInputs(g, g.n[input_val[1]].ins)

\* the TORCH_CHECK of findSubgraph fails on some node it visits
UnexpectedInput(g, self, weight_value) ==
    \E n \in Range(FindSubgraph(g, weight_value)) :
        \E i \in DOMAIN g.n[n].ins :
            HitGraphInput(g, g.n[n].ins[i]) /\ g.n[n].ins[i] # self

\* as ReversedSubgraph, but the list is left in the order of the walk
ReversedSubgraph_Kept(weight_subgraph) == weight_subgraph

\* line 744: std::reverse
ReversedSubgraph(weight_subgraph) == Reverse(weight_subgraph)

\* value_fn of cloneNodeInGraph; d = [remap, inputs, nodes] is the function
\* under construction: a Value of it is <<0, k>> for its input k and <<i, k>>
\* for output k of its node i
ValueFn(d, v) ==
    IF v \in DOMAIN d.remap THEN d
    ELSE [d EXCEPT !.remap = (v :> <<0, Len(d.inputs) + 1>>) @@ d.remap,
                   !.inputs = Append(d.inputs, v)]

RECURSIVE RemapInputs(_, _)
RemapInputs(d, ins) ==
    IF ins = <<>> THEN d ELSE RemapInputs(ValueFn(d, Head(ins)), Tail(ins))

\* d1 is d after value_fn was called on the inputs of node
AppendClone(g, node, d1) ==
    [remap |-> [v \in {<<node, k>> : k \in 1..g.n[node].nout} |->
                   <<Len(d1.nodes) + 1, v[2]>>] @@ d1.remap,
     inputs |-> d1.inputs,
     nodes |-> Append(d1.nodes,
                      [kind |-> g.n[node].kind, name |-> g.n[node].name,
                       ins |-> [i \in DOMAIN g.n[node].ins |-> d1.remap[g.n[node].ins[i]]]])]

\* cloneNodeInGraph(node, g, remap_old_to_new)
CloneNodeInGraph(g, node, d) == AppendClone(g, node, RemapInputs(d, g.n[node].ins))

RECURSIVE CloneNodes(_, _, _)
CloneNodes(g, nodes, d) ==
    IF nodes = <<>> THEN d
    ELSE CloneNodes(g, Tail(nodes), CloneNodeInGraph(g, Head(nodes), d))

RegisterOutputs(g, back, d) ==
    [inputs |-> d.inputs, nodes |-> d.nodes,
     outputs |-> [k \in 1..g.n[back].nout |-> d.remap[<<back, k>>]]]

\* buildObserverSubgraph(weight_subgraph, dest_graph)
BuildObserverSubgraph(g, weight_subgraph) ==
    RegisterOutputs(g, weight_subgraph[Len(weight_subgraph)],
                    CloneNodes(g, weight_subgraph,
                               [remap |-> EmptyFn, inputs |-> <<>>, nodes |-> <<>>]))

\* buildGraphFromNodes(nodes, name): the function and the nodes it was made from
BuildGraphFromNodes(g, nodes) == [subgraph |-> nodes, fn |-> BuildObserverSubgraph(g, nodes)]

\* as CachedWith, but the function is not kept for later calls
CachedWith_Forgotten(cache, weight_value, func) == cache

\* line 750: weight_to_graph_fn_[weight_value] = std::move(func)
CachedWith(cache, weight_value, func) == (weight_value :> func) @@ cache

\* lines 739-751: the cache after the call
CacheAfter(cache, g, weight_value) ==
    IF weight_value \in DOMAIN cache THEN cache
    ELSE CachedWith(cache, weight_value,
                    BuildGraphFromNodes(g, ReversedSubgraph(FindSubgraph(g, weight_value))))

\* lines 752-754 on the function the call has at hand: func, just built, or the
\* cached one
RunRecord(module, weight_value, built, func) ==
    [v |-> weight_value, module |-> module, built |-> built,
     ran |-> <<[fn |-> func, args |-> <<module>>]>>]

\* extractAndRunWeightObserver(module, self, weight_value)
ExtractAndRunWeightObserver ==
    /\ pc = "runWeightObserver"
    /\ Len(wlog) < MaxCalls
    /\ \E module \in 1..nmod, weight_value \in WeightValues(graph) :
          IF weight_value \notin DOMAIN weight_to_graph_fn_
             /\ UnexpectedInput(graph, SelfV, weight_value)
          THEN /\ pc' = "error"
               /\ UNCHANGED weightVars
          ELSE /\ weight_to_graph_fn_' = CacheAfter(weight_to_graph_fn_, graph, weight_value)
               /\ wlog' = Append(wlog,
                     RunRecord(module, weight_value,
                               weight_value \notin DOMAIN weight_to_graph_fn_,
                               IF weight_value \in DOMAIN weight_to_graph_fn_
                               THEN weight_to_graph_fn_[weight_value]
                               ELSE BuildGraphFromNodes(graph,
                                        ReversedSubgraph(FindSubgraph(graph, weight_value)))))
               /\ pc' = pc
    /\ UNCHANGED <<pass, graph, snap, last, typeAttrs, nodes_to_destroy_,
                   observer_modules_to_remove_, quantized_values_>>
    /\ UNCHANGED helperVars
    /\ UNCHANGED <<travVars, slotVars, cleanVars>>

\* dynamic quantization of NumModules instances of one type whose forward holds
\* one or two linears
InitWeight ==
    \E shapes \in UNION {[1..k -> WeightProducers] : k \in DOMAIN WeightObserverNames} :
        /\ HelperInitAt("runWeightObserver", WeightGraph(shapes), "DYNAMIC", NumModules,
                        [m \in 1..NumModules |->
                            [x |-> "per_tensor_affine", w |-> "per_tensor_affine",
                             res |-> WellFormedResults]],
                        DefaultLayout)
        /\ TravOff

NextWeight == ExtractAndRunWeightObserver

SpecWeight == InitWeight /\ [][NextWeight]_vars

-----------------------------------------------------------------------------
(* Claims about parameter extraction and insertion *)

\* C1: an observer whose scheme collapses under toAffine to another scheme than
\* the one recorded for the Graph is never given quantize nodes or attribute
\* values: the pass aborts on it
C1_SchemeConflictAborts ==
    \A h \in handled : ToAffine(h.qscheme) = qscheme_for_graph_

GeneratedNames ==
    UNION {Range(qparam_name_map_for_node_[n]) : n \in DOMAIN qparam_name_map_for_node_}

\* C5: a run() on a later Module instance sharing the Graph leaves the Graph as
\* it is and only sets, on that instance, values under the generated names
C5_LaterRunsOnlySetAttributes ==
    [][cur > 1 =>
        /\ graph' = graph
        /\ typeAttrs' = typeAttrs
        /\ qparam_name_map_for_node_' = qparam_name_map_for_node_
        /\ \A m \in 1..nmod : m # cur => attrs'[m] = attrs[m]
        /\ DOMAIN attrs'[cur] \subseteq GeneratedNames]_vars

C5_Witness ==
    /\ cur > 1
    /\ last.kind = "fast"
    /\ pc # "error"
    /\ DOMAIN attrs[cur] # {}
    /\ \E n \in DOMAIN graph.n : graph.n[n].kind \in QuantKinds

-----------------------------------------------------------------------------
(* Claims about the whole pass *)

\* an op propagateQuantizationOps wraps: a single-input general-value or
\* fixed-qparam op whose input is a dequantize output
ReadsDequantize(g, n) ==
    /\ IsSingleInputGeneralValueAtenFunction(g, n) \/ HasFixedQParams(g, n)
    /\ g.n[g.n[n].ins[1][1]].kind = "dequantize"

QuantizersOf(g, v) ==
    {n \in DOMAIN g.n : g.n[n].kind \in QuantKinds /\ g.n[n].ins # <<>> /\ g.n[n].ins[1] = v}

AllValues(g) == UNION {{<<n, k>> : k \in 1..g.n[n].nout} : n \in DOMAIN g.n}

\* C6 as claimed: after the whole pass no Value is quantized by more than one
\* quantize node
C6_SingleQuantization ==
    pc = "done" => \A v \in AllValues(graph) : Cardinality(QuantizersOf(graph, v)) <= 1

\* q quantizes v with the scale and zero point of its own choose_qparams node
OwnChain(g, q, v) ==
    /\ Len(g.n[q].ins) = 4
    /\ g.n[q].ins[1] = v
    /\ g.n[g.n[q].ins[2][1]].kind = "choose_qparams"
    /\ g.n[g.n[q].ins[2][1]].ins[1] = v
    /\ Users(g, g.n[q].ins[2]) = {q}
    /\ g.n[q].ins[3] = <<g.n[q].ins[2][1], 2>>

\* C6 amended: after the whole pass a Value is quantized by more than one
\* quantize node only in dynamic mode, where each of these quantize nodes takes
\* scale and zero point from a choose_qparams node of its own on that Value
C6_SingleQuantizationButDynamicChains ==
    pc = "done" =>
        \A v \in AllValues(graph) :
            Cardinality(QuantizersOf(graph, v)) > 1 =>
                /\ quant_type_ = "DYNAMIC"
                /\ \A q \in QuantizersOf(graph, v) : OwnChain(graph, q, v)

C6_Witness ==
    /\ pc = "done"
    /\ \E v \in AllValues(graph) : Cardinality(QuantizersOf(graph, v)) > 1

\* ReplicateQuant is about to meet a quantize node on an If with several outputs
QuantizesMultiOutputIf(g) ==
    \E n \in DOMAIN g.n : QuantizesIf(g, n) /\ g.n[g.n[n].ins[1][1]].nout > 1

\* C7 as claimed: ReplicateQuant on a quantize node whose input comes from an If
\* with several outputs leaves the graph as it is and raises no error
C7_MultiOutputIfSkipped ==
    [][pc = "ReplicateQuant" /\ QuantizesMultiOutputIf(graph) =>
          graph'.n = graph.n /\ graph'.b = graph.b /\ pc' # "error"]_vars

\* C7 amended: ReplicateQuant on such a quantize node raises an error; no node
\* is created or destroyed, and the producers of the quantization parameters
\* of the quantize node met first stand before the If
C7_MultiOutputIfRaises ==
    \A r \in last.rew :
        last.kind = "ReplicateQuant" /\ graph.n[r.if_node].nout > 1 =>
            /\ pc = "error"
            /\ graph.err # ""
            /\ DOMAIN graph.n = r.nodes0
            /\ \E r2 \in last.rew :
                  \A p \in r2.params :
                      /\ BlockOf(graph, p) = BlockOf(graph, r2.if_node)
                      /\ Pos(graph, p) < Pos(graph, r2.if_node)

C7_Witness ==
    /\ last.kind = "ReplicateQuant"
    /\ pc = "error"
    /\ \E r \in last.rew : graph.n[r.if_node].nout > 1

\* the fresh dequantize nodes of chains on the Value a
FreshChains(g, a, next0) ==
    {d \in DOMAIN g.n : d >= next0 /\ IsDynamicChain(g, d) /\ ChainMatches(g, ChainOf(g, d))
                        /\ ChainOf(g, d).a = a}

\* C8: after ReplicateChooseQParamsQuantDequant, a chain whose dequantize
\* output had N > 1 uses is destroyed, N fresh chains on the same input exist,
\* every original use slot reads the dequantize output of a fresh chain of its
\* own and every fresh dequantize output has exactly one use
C8_OneFreshChainPerUse ==
    last.kind = "ReplicateChooseQParamsQuantDequant" =>
        \A r \in last.rew :
            /\ {r.chain.choose_qparams, r.chain.quant, r.chain.dequant} \cap DOMAIN graph.n = {}
            /\ Cardinality(FreshChains(graph, r.chain.a, r.next0)) = Cardinality(r.uses)
            /\ \A d \in FreshChains(graph, r.chain.a, r.next0) :
                  Cardinality(UseSet(graph, Out(d))) = 1
            /\ \A u \in r.uses :
                  \E d \in FreshChains(graph, r.chain.a, r.next0) :
                      UseSet(graph, Out(d)) = {u}

\* the fresh dequantize nodes that read quantized_val
FreshDequantizes(g, quantized_val, next0) ==
    {d \in DOMAIN g.n : d >= next0 /\ g.n[d].kind = "dequantize"
                        /\ g.n[d].ins = <<quantized_val>>}

\* C9: after ReplicateDeQuant, a dequantize node that had N > 1 uses is
\* destroyed, N dequantize nodes reading the same quantized input stand in its
\* place, one per original use slot and each with exactly one use, and no
\* dequantize node of the graph has more than one use
C9_OneDequantizePerUse ==
    last.kind = "ReplicateDeQuant" =>
        /\ \A r \in last.rew :
              /\ r.node \notin DOMAIN graph.n
              /\ Cardinality(FreshDequantizes(graph, r.quantized_val, r.next0))
                    = Cardinality(r.uses)
              /\ \A u \in r.uses :
                    \E d \in FreshDequantizes(graph, r.quantized_val, r.next0) :
                        UseSet(graph, Out(d)) = {u}
        /\ \A d \in DOMAIN graph.n :
              graph.n[d].kind = "dequantize" => Cardinality(UseSet(graph, Out(d))) <= 1

C9_Witness ==
    /\ last.kind = "ReplicateDeQuant"
    /\ pc # "error"
    /\ \E r \in last.rew : \E u1, u2 \in r.uses : u1[1] = u2[1] /\ u1[2] # u2[2]

-----------------------------------------------------------------------------
(* Claims about the traversal *)

RunStages == {"locate", "extract", "insert"}

\* the CallMethod edges: the forward of tree[c].parent invokes the forward of c
CallEdges(t) == {c \in 2..Len(t) : t[c].called}

\* C10 as claimed: every stage on the invoked method's graph, cleanup included,
\* happens before any stage on the invoking method's graph
C10_InvokedFullyProcessedFirst ==
    \A c \in CallEdges(tree) :
        \A i, j \in DOMAIN tlog :
            tlog[i].g = tree[c].type /\ tlog[j].g = tree[tree[c].parent].type => i < j

\* C10 amended: observer location, parameter extraction and insertion for the
\* invoked method of a Module instance happen before any of them for the
\* invoking method of its parent; cleanup happens after all of them, and for a
\* module before its children
C10_InvokedRunFirstCleanupLast ==
    /\ \A c \in CallEdges(tree) :
          \A i, j \in DOMAIN tlog :
              /\ tlog[i].m = c /\ tlog[j].m = tree[c].parent
              /\ tlog[i].stage \in RunStages /\ tlog[j].stage \in RunStages
              => i < j
    /\ \A i, j \in DOMAIN tlog :
          tlog[i].stage \in RunStages /\ tlog[j].stage = "cleanup" => i < j
    /\ \A c \in 2..Len(tree) :
          \A i, j \in DOMAIN tlog :
              /\ tlog[i].m = c /\ tlog[j].m = tree[c].parent
              /\ tlog[i].stage = "cleanup" /\ tlog[j].stage = "cleanup"
              => j < i

C10_Witness ==
    /\ tpc = "done"
    /\ \E c \in CallEdges(tree) :
          \E i, j, k, l \in DOMAIN tlog :
              /\ tlog[i].m = c /\ tlog[i].stage = "insert"
              /\ tlog[j].m = tree[c].parent /\ tlog[j].stage = "locate"
              /\ tlog[k].m = tree[c].parent /\ tlog[k].stage = "cleanup"
              /\ tlog[l].m = c /\ tlog[l].stage = "cleanup"
              /\ i < j /\ j < k /\ k < l

-----------------------------------------------------------------------------
(* Claims about cleanup and about the observers' results *)

NotObserver(name) == name.q \notin ObserverNames

\* C11: when cleanup has taken the instances, every instance that started with
\* the slot layout of the first one cleaned holds, slot by slot, the same
\* attributes as the first: the replay of the recorded slot indices removed what
\* the removal by name removed from the first, the observer attributes
C11_ReplayRemovesSameSlots ==
    cleaned # <<>> =>
        /\ slots[cleaned[1]] = SelectSeq(slots0[cleaned[1]], NotObserver)
        /\ \A i \in 2..Len(cleaned) :
              slots0[cleaned[i]] = slots0[cleaned[1]]
                  => slots[cleaned[i]] = slots[cleaned[1]]

\* two instances, the first one cleaned is not the first one run, and the
\* observers are declared before the weight and in another order than the graph
\* calls them
C11_Witness ==
    /\ Len(cleaned) >= 2
    /\ cleaned[1] # 1
    /\ pc = "ReplicateChooseQParamsQuantDequant"
    /\ Len(removed_observer_slots_) = 2
    /\ slots0[cleaned[2]] = slots0[cleaned[1]]
    /\ slots0[cleaned[1]][1] = Name("_observer_1")
    /\ slots0[cleaned[1]][2] = Name("_observer_0")
    /\ slots0[cleaned[1]][3] = Name("weight")
    /\ Len(slots[cleaned[2]]) = Len(slots0[cleaned[2]]) - 2

DestroyCalls == {i \in DOMAIN destroy_log : destroy_log[i].op = "destroy"}

ClearCalls == {i \in DOMAIN destroy_log : destroy_log[i].op = "removeAllInputs"}

\* C12: when cleanup has taken the instances that share the Graph, every observer
\* call node and as many observer GetAttr nodes were destroyed, each once; all
\* removeAllInputs calls came before the first destroy; no destroyed node had a
\* use left; and the nodes are gone from the graph
C12_DestroyedOncePerGraph ==
    cleaned # <<>> =>
        /\ \A n \in Range(observer_nodes_for_graph_) :
              Cardinality({i \in DestroyCalls : destroy_log[i].node = n}) = 1
        /\ Cardinality({i \in DestroyCalls : destroy_log[i].kind = "CallMethod"})
              = Len(observer_nodes_for_graph_)
        /\ Cardinality({i \in DestroyCalls : destroy_log[i].kind = "GetAttr"})
              = Len(observer_nodes_for_graph_)
        /\ Cardinality(DestroyCalls) = 2 * Len(observer_nodes_for_graph_)
        /\ \A i, j \in DestroyCalls : destroy_log[i].node = destroy_log[j].node => i = j
        /\ {destroy_log[i].node : i \in ClearCalls} = {destroy_log[i].node : i \in DestroyCalls}
        /\ \A i \in ClearCalls, j \in DestroyCalls : i < j
        /\ \A i \in DestroyCalls : ~destroy_log[i].used
        /\ \A i \in DestroyCalls : destroy_log[i].node \notin DOMAIN graph.n

\* cleanup went over two instances and destroyed the four recorded nodes
C12_Witness ==
    /\ Len(cleaned) >= 2
    /\ pc = "ReplicateChooseQParamsQuantDequant"
    /\ Len(observer_nodes_for_graph_) = 2
    /\ Cardinality(DestroyCalls) = 4
    /\ Cardinality(ClearCalls) = 4

\* the result is what the claim calls malformed
Malformed(qparams) ==
    \/ ~qparams.tuple
    \/ Len(qparams.elements) # 2
    \/ \E i \in 1..2 : i <= Len(qparams.elements) /\ qparams.elements[i] # "Tensor"

\* the observer whose parameters run() reads next for the current instance
NextObserverName == FindObserverName(graph, Out(observer_nodes_for_graph_[obsIdx]))

\* C20: the step that reads a malformed calculate_qparams result aborts the pass
\* and leaves the attributes of the type and of every instance and the graph as
\* they were
C20_MalformedResultAborts ==
    [][(/\ pc \in {"run", "quantize"}
        /\ observer_nodes_for_graph_ # <<>>
        /\ Malformed(calib[cur].res[NextObserverName]))
       => /\ pc' = "error"
          /\ graph' = graph
          /\ attrs' = attrs
          /\ typeAttrs' = typeAttrs
          /\ typeSlots' = typeSlots
          /\ slots' = slots]_vars

\* the pass aborted on the second instance, whose weight observer returned a
\* tuple of three tensors, after the first instance got its attributes
C20_Witness ==
    /\ pc = "error"
    /\ cur = 2
    /\ NextObserverName = "_observer_1"
    /\ calib[2].res["_observer_1"] =
          [tuple |-> TRUE, elements |-> <<"Tensor", "Tensor", "Tensor">>]
    /\ DOMAIN attrs[1] # {}
    /\ graph.err = ""

-----------------------------------------------------------------------------
(* Claims about the rewrites of quantize and dequantize nodes *)

\* n is a quantize node of g whose first input is the output of an If with one
\* output
QuantizesSingleOutputIf(g, n) ==
    /\ g.n[n].kind \in QuantKinds
    /\ g.n[g.n[n].ins[1][1]].kind = "If"
    /\ g.n[g.n[n].ins[1][1]].nout = 1

\* block b of g2 ends with a quantize node that g did not have, of the kind and
\* with the parameter inputs of n, reading what b returned in g, and b returns
\* its output
EndsWithOwnQuantize(g, g2, n, b) ==
    /\ g2.b[b].nodes # <<>>
    /\ g2.b[b].nodes[Len(g2.b[b].nodes)] \notin DOMAIN g.n
    /\ g2.n[g2.b[b].nodes[Len(g2.b[b].nodes)]].kind = g.n[n].kind
    /\ g2.n[g2.b[b].nodes[Len(g2.b[b].nodes)]].ins
          = <<g.n[g.b[b].ret].ins[1]>> \o Tail(g.n[n].ins)
    /\ g2.n[g2.b[b].ret].ins = <<Out(g2.b[b].nodes[Len(g2.b[b].nodes)])>>

\* C13: ReplicateQuant, for every quantize node n that reads the output of a
\* single-output If: the step does not fail, n is gone and no quantize node reads
\* the output of the If; each block of the If ends with its own quantize node
\* of the kind and with the parameter inputs of n, and returns its output; the
\* producers of the parameters stand before the If in its block; and every
\* former use of the output of n reads the output of the If
C13_QuantizeReplicatedIntoBranches ==
    [][pc = "ReplicateQuant" =>
        \A n \in DOMAIN graph.n :
            QuantizesSingleOutputIf(graph, n) =>
                /\ pc' # "error"
                /\ n \notin DOMAIN graph'.n
                /\ \A q \in DOMAIN graph'.n :
                      graph'.n[q].kind \in QuantKinds
                          => Out(graph.n[n].ins[1][1]) \notin Range(graph'.n[q].ins)
                /\ \A b \in Range(graph.n[graph.n[n].ins[1][1]].blocks) :
                      EndsWithOwnQuantize(graph, graph', n, b)
                /\ \A j \in 2..Len(graph.n[n].ins) :
                      /\ BlockOf(graph', graph.n[n].ins[j][1])
                            = BlockOf(graph', graph.n[n].ins[1][1])
                      /\ Pos(graph', graph.n[n].ins[j][1])
                            < Pos(graph', graph.n[n].ins[1][1])
                /\ \A u \in UseSet(graph, Out(n)) :
                      graph'.n[u[1]].ins[u[2]] = Out(graph.n[n].ins[1][1])]_vars

\* the dequantize nodes the pattern of the rewrite at stage matches in g
MatchedDequantizes(g, stage) ==
    IF stage = "RemoveRedundantQuantizationOps" THEN DynamicMatches(g)
    ELSE {d \in DOMAIN g.n : g.n[d].kind = "dequantize"}

RedundancyStages == {"RemoveRedundantQuantizationOps", "RemoveRedundantDequantize"}

SwapNodes(g, qv) ==
    {n \in DOMAIN g.n :
        /\ g.n[n].kind \notin {"Param", "Return"}
        /\ g.n[n].nout = 1
        /\ ~IsSingleInputGeneralValueAtenFunction(g, n)
        /\ ~HasFixedQParams(g, n)
        /\ Out(n) \notin qv
        /\ GetDequantizedInputs(g, Out(n)) # <<>>}

\* the quantized Values the dequantize nodes in front of n read
QuantizedInputs(g, n) ==
    {g.n[d[1]].ins[1] : d \in Range(GetDequantizedInputs(g, Out(n)))}

\* in g2 the dequantize nodes that were in front of n in g are gone and n reads
\* the quantized Values
ReadsQuantized(g, g2, n) ==
    /\ \A d \in Range(GetDequantizedInputs(g, Out(n))) : d[1] \notin DOMAIN g2.n
    /\ Range(GetPassThroughInputs(g2, Out(n))) = QuantizedInputs(g, n)

\* in g2 every use that the output of n had in g reads a dequantize node made
\* for it alone, and nothing but these dequantize nodes reads the output of n
OwnDequantizePerUse(g, g2, n) ==
    /\ \A u \in UseSet(g2, Out(n)) :
          /\ g2.n[u[1]].kind = "dequantize"
          /\ u[1] \notin DOMAIN g.n
          /\ Cardinality(UseSet(g2, Out(u[1]))) = 1
    /\ \A u \in UseSet(g, Out(n)) :
          /\ g2.n[g2.n[u[1]].ins[u[2]][1]].kind = "dequantize"
          /\ g2.n[g2.n[u[1]].ins[u[2]][1]].ins = <<Out(n)>>
          /\ UseSet(g2, g2.n[u[1]].ins[u[2]]) = {u}

\* the nodes propagateQParams makes to read scale, zero point and dtype off a
\* quantized Value
QParamAccessors == {"q_scale", "q_zero_point", "dtype"}

\* the kinds of the nodes that read in g2 one of the quantized Values that were
\* in front of n in g, but for nodes of the kind of n
OtherReaders(g, g2, n) ==
    {g2.n[u[1]].kind : u \in UNION {UseSet(g2, q) : q \in QuantizedInputs(g, n)}}
        \ {g.n[n].kind}

-----------------------------------------------------------------------------
(* Claims about the nodes insertQuantizationOps inserts *)

\* the nodes of kind kinds that g2 has and g has not
NewNodes(g, g2, kinds) == {m \in DOMAIN g2.n \ DOMAIN g.n : g2.n[m].kind \in kinds}

\* the observer quantizeTensors is about to handle, and what it observes
TheObserver == observer_nodes_for_graph_[obsIdx]

ObservedValue == graph.n[TheObserver].ins[2]

ObservedPerChannel ==
    ObserverQScheme(calib, cur, FindObserverName(graph, Out(TheObserver)))
        \in {"per_channel_affine", "per_channel_symmetric"}

\* the step inserts the static form: no parameter selection is inserted at run time
StaticForm == quant_type_ = "STATIC" \/ IsWeight(graph, Out(TheObserver))

\* v is the output of a GetAttr node on self for an attribute whose name ends in q
LookupOnSelf(g, g2, v, q) ==
    /\ v[1] \in NewNodes(g, g2, {"GetAttr"})
    /\ v[2] = 1
    /\ g2.n[v[1]].ins = <<SelfV>>
    /\ g2.n[v[1]].name.q = q

\* C16: in static mode, and for a weight in dynamic mode, insertQuantizationOps
\* inserts one quantize node whose inputs are the observed Value and then one
\* attribute lookup on self per qparam, in the order scale, zero point, axis
\* (per channel only), scalar type, and one dequantize node that reads the
\* quantize node
C16_StaticQuantizeFromAttributes ==
    [][(pc = "quantize" /\ pc' # "error" /\ StaticForm) =>
        /\ NewNodes(graph, graph', {"choose_qparams", "Constant"}) = {}
        /\ Cardinality(NewNodes(graph, graph', QuantKinds)) = 1
        /\ Cardinality(NewNodes(graph, graph', {"dequantize"})) = 1
        /\ Cardinality(NewNodes(graph, graph', {"GetAttr"}))
              = IF ObservedPerChannel THEN 4 ELSE 3
        /\ \A q \in NewNodes(graph, graph', QuantKinds) :
              /\ Len(graph'.n[q].ins) = IF ObservedPerChannel THEN 5 ELSE 4
              /\ graph'.n[q].ins[1] = ObservedValue
              /\ LookupOnSelf(graph, graph', graph'.n[q].ins[2], "_scale")
              /\ LookupOnSelf(graph, graph', graph'.n[q].ins[3], "_zero_point")
              /\ ObservedPerChannel
                    => LookupOnSelf(graph, graph', graph'.n[q].ins[4], "_axis")
              /\ LookupOnSelf(graph, graph', graph'.n[q].ins[Len(graph'.n[q].ins)],
                              "_scalar_type")
              /\ \A d \in NewNodes(graph, graph', {"dequantize"}) :
                    graph'.n[d].ins = <<Out(q)>>]_vars

\* a per-channel weight has just been quantized in dynamic mode: the quantize
\* node the step made reads five values
C16_Witness ==
    /\ last.kind = "insert"
    /\ quant_type_ = "DYNAMIC"
    /\ ~last.dyn
    /\ graph.n[last.quant].kind = "quantize_per_channel"
    /\ Len(graph.n[last.quant].ins) = 5
    /\ graph.n[last.dequant].ins = <<Out(last.quant)>>

\* C17: in dynamic mode, for an observed Value that is not a weight,
\* insertQuantizationOps inserts a choose_qparams node with two outputs, the
\* scale of type float and the zero point of type int, that reads the Value
\* and a constant true and stands before the quantize node; the quantize node
\* reads the Value, these two outputs and a dtype that is an attribute lookup on
\* self
C17_DynamicQuantizeFromChooseQParams ==
    [][(pc = "quantize" /\ pc' # "error" /\ ~StaticForm) =>
        /\ Cardinality(NewNodes(graph, graph', {"choose_qparams"})) = 1
        /\ Cardinality(NewNodes(graph, graph', QuantKinds)) = 1
        /\ \A c \in NewNodes(graph, graph', {"choose_qparams"}) :
              /\ graph'.n[c].nout = 2
              /\ graph'.n[c].types = <<"float", "int">>
              /\ Len(graph'.n[c].ins) = 2
              /\ graph'.n[c].ins[1] = ObservedValue
              /\ graph'.n[c].ins[2][1] \in NewNodes(graph, graph', {"Constant"})
              /\ graph'.n[graph'.n[c].ins[2][1]].name.q = "true"
              /\ \A q \in NewNodes(graph, graph', QuantKinds) :
                    /\ IsAfter(graph', q, c)
                    /\ Len(graph'.n[q].ins) = 4
                    /\ graph'.n[q].ins[1] = ObservedValue
                    /\ graph'.n[q].ins[2] = <<c, 1>>
                    /\ graph'.n[q].ins[3] = <<c, 2>>
                    /\ LookupOnSelf(graph, graph', graph'.n[q].ins[4], "_scalar_type")]_vars

\* an activation has just been quantized in dynamic mode: the quantize node reads
\* the two outputs of the choose_qparams node the step made
C17_Witness ==
    /\ last.kind = "insert"
    /\ last.dyn
    /\ graph.n[last.choose].kind = "choose_qparams"
    /\ graph.n[last.quant].ins[2] = <<last.choose, 1>>
    /\ graph.n[last.quant].ins[3] = <<last.choose, 2>>

-----------------------------------------------------------------------------
(* Claims about the weight observers *)

\* every input of every node of the list is self or an output of a node at an
\* earlier position
ValidExecutionOrder(g, self, nodes) ==
    \A i \in DOMAIN nodes :
        \A k \in DOMAIN g.n[nodes[i]].ins :
            \/ g.n[nodes[i]].ins[k] = self
            \/ \E j \in 1..(i - 1) : nodes[j] = g.n[nodes[i]].ins[k][1]

\* C18: the node list findSubgraph collects from a weight Value is, once
\* reversed, a valid execution order: each input of a node of the list is self
\* or an output of a node earlier in the list, also when a producer is reached
\* from the weight along several paths
C18_ReversedSubgraphIsExecutionOrder ==
    \A v \in DOMAIN weight_to_graph_fn_ :
        /\ weight_to_graph_fn_[v].subgraph[Len(weight_to_graph_fn_[v].subgraph)] = v[1]
        /\ ValidExecutionOrder(graph, SelfV, weight_to_graph_fn_[v].subgraph)

\* a function was made for a weight whose producer is reached along two paths:
\* the list holds that producer twice
C18_Witness ==
    \E v \in DOMAIN weight_to_graph_fn_ :
        \E i, j \in DOMAIN weight_to_graph_fn_[v].subgraph :
            /\ i < j
            /\ weight_to_graph_fn_[v].subgraph[i] = weight_to_graph_fn_[v].subgraph[j]
            /\ graph.n[weight_to_graph_fn_[v].subgraph[i]].kind = "GetAttr"

\* C19: over the calls of extractAndRunWeightObserver, the function of a
\* weight Value is extracted and built on the first call for that Value only
\* and the later calls run that same function; every call runs the function
\* once, on the Module instance of the call as the only argument
C19_FunctionBuiltOnceRunEveryCall ==
    \A i \in DOMAIN wlog :
        /\ wlog[i].built <=> (\A j \in 1..(i - 1) : wlog[j].v # wlog[i].v)
        /\ Len(wlog[i].ran) = 1
        /\ wlog[i].ran[1].args = <<wlog[i].module>>
        /\ wlog[i].ran[1].fn.fn.inputs = <<SelfV>>
        /\ \A j \in 1..(i - 1) :
              wlog[j].v = wlog[i].v => wlog[i].ran[1].fn = wlog[j].ran[1].fn

\* the observer of one weight was run for two Module instances, the observer of
\* another weight in between
C19_Witness ==
    /\ Len(wlog) = 3
    /\ wlog[1].v = wlog[3].v
    /\ wlog[1].v # wlog[2].v
    /\ wlog[1].module # wlog[3].module
    /\ wlog[1].built
    /\ ~wlog[3].built

-----------------------------------------------------------------------------
(* Claims about the generated attribute names, about propagation and about  *)
(* the attributes cleanup removes                                            *)

\* the name the step registered for qparam q of the observer it handled
GeneratedName(q) == qparam_name_map_for_node_'[TheObserver][q]

\* C21: each attribute name quantizeTensors generates is the name of the
\* observed Value, the qparam name and the smallest suffix k >= 0 for which the
\* module has no attribute of that name when it is generated; so no generated
\* name is the name of an attribute the module had or of another generated
\* name, and the module never holds two attributes of one name
C21_GeneratedNamesAreFresh ==
    [][(pc = "quantize" /\ pc' # "error") =>
        /\ \A q \in DOMAIN qparam_name_map_for_node_'[TheObserver] :
              /\ GeneratedName(q).base = ObservedValue
              /\ GeneratedName(q).q = q
              /\ GeneratedName(q).uid >= 0
              /\ GeneratedName(q) \notin typeAttrs
              /\ GeneratedName(q) \in typeAttrs'
              /\ \A k \in 0..(GeneratedName(q).uid - 1) :
                    QName(ObservedValue, q, k) \in typeAttrs
        /\ Len(typeSlots') = Len(typeSlots)
                               + Cardinality(DOMAIN qparam_name_map_for_node_'[TheObserver])
        /\ \A i, j \in DOMAIN typeSlots' : typeSlots'[i] = typeSlots'[j] => i = j]_vars

\* the module had the scale name with suffix 0 and the zero point names with
\* suffixes 0 and 1 of an observed Value: its generated names got the
\* suffixes 1 and 2
C21_Witness ==
    /\ last.kind = "insert"
    /\ QName(last.x, "_scale", 1) \in Range(qparam_name_map_for_node_[last.obs])
    /\ QName(last.x, "_zero_point", 2) \in Range(qparam_name_map_for_node_[last.obs])
    /\ QName(last.x, "_scale", 0) \in typeAttrs

\* the iterations of propagateQuantizationOps on the graph, and its end
Visits == VisitsFrom([g |-> graph, qv |-> quantized_values_], FirstNode(graph, 0))

\* iteration i calls propagateQParams on the output of its node
CallsPropagateQParams(st, n) ==
    /\ IsSingleInputGeneralValueAtenFunction(st.g, n) \/ HasFixedQParams(st.g, n)
    /\ Out(n) \notin st.qv
    /\ Len(GetDequantizedInputs(st.g, Out(n))) = 1

\* v is the output of a node of kind that g2 has and g has not and that reads ins
MadeBy(g, g2, v, kind, ins) ==
    /\ v[1] \in NewNodes(g, g2, {kind})
    /\ v[2] = 1
    /\ g2.n[v[1]].ins = ins

\* the inputs of quantize node q after the output of n: constants of the fixed
\* table, or the accessors on the quantized Value in front of n
QParamsOf(g, g2, n, q) ==
    /\ Len(g2.n[q].ins) = 4
    /\ IF HasFixedQParams(g, n)
       THEN /\ \A k \in 2..4 : MadeBy(g, g2, g2.n[q].ins[k], "Constant", <<>>)
            /\ [k \in 1..3 |-> g2.n[g2.n[q].ins[k + 1][1]].name.q]
                  = <<"_scale", "_zero_point", "_scalar_type">>
            /\ NewNodes(g, g2, {"q_scale", "q_zero_point", "dtype"}) = {}
       ELSE /\ MadeBy(g, g2, g2.n[q].ins[2], "q_scale", <<g.n[g.n[n].ins[1][1]].ins[1]>>)
            /\ MadeBy(g, g2, g2.n[q].ins[3], "q_zero_point", <<g.n[g.n[n].ins[1][1]].ins[1]>>)
            /\ MadeBy(g, g2, g2.n[q].ins[4], "dtype", <<g.n[g.n[n].ins[1][1]].ins[1]>>)
            /\ NewNodes(g, g2, {"Constant"}) = {}

\* g2 is g with the output of n wrapped: one quantize node after n reads it and
\* is its only reader, and each use it had reads a dequantize node of its own
WrappedOnce(g, g2, n) ==
    /\ Cardinality(NewNodes(g, g2, QuantKinds)) = 1
    /\ Cardinality(NewNodes(g, g2, {"dequantize"})) = Cardinality(UseSet(g, Out(n)))
    /\ \A q \in NewNodes(g, g2, QuantKinds) :
          /\ g2.n[q].ins[1] = Out(n)
          /\ IsAfter(g2, q, n)
          /\ UseSet(g2, Out(n)) = {<<q, 1>>}
          /\ QParamsOf(g, g2, n, q)
          /\ \A u \in UseSet(g, Out(n)) :
                /\ MadeBy(g, g2, g2.n[u[1]].ins[u[2]], "dequantize", <<Out(q)>>)
                /\ UseSet(g2, g2.n[u[1]].ins[u[2]]) = {u}

\* v are the iterations of the traversal that leaves g2: each call of
\* propagateQParams wraps the output it is called on
EveryCallWraps(v, g2) ==
    /\ g2 = v[Len(v)].st.g
    /\ \A i \in 1..(Len(v) - 1) :
          CallsPropagateQParams(v[i].st, v[i].n)
              => WrappedOnce(v[i].st.g, v[i + 1].st.g, v[i].n)

\* C22: propagateQParams for the output o of a general value op whose only
\* pass-through input is a dequantize output inserts one quantize node after
\* the op that reads o and is then the only consumer of o, and every former
\* use of o reads a dequantize node of its own on the quantize output; the
\* quantize parameters are constants of the fixed table for an op with fixed
\* qparams and else the q_scale, q_zero_point and dtype nodes on the quantized
\* Value of the input
C22_OutputWrappedByQuantDequant ==
    [][(pc = "propagateQuantizationOps") => EveryCallWraps(Visits, graph')]_vars

\* propagateQuantizationOps has run on a sigmoid followed by an avg_pool2d with
\* three uses: the output of each is read by one quantize node, with constants
\* for the sigmoid and accessors for the avg_pool2d, and three dequantize nodes
\* read the quantize node of the avg_pool2d
C22_Witness ==
    /\ pc = "RemoveRedundantDequantize"
    /\ \E a, b, qa, qb \in DOMAIN graph.n :
          /\ graph.n[a].kind = "sigmoid"
          /\ graph.n[b].kind = "avg_pool2d"
          /\ graph.n[qa].kind \in QuantKinds
          /\ graph.n[qb].kind \in QuantKinds
          /\ UseSet(graph, Out(a)) = {<<qa, 1>>}
          /\ UseSet(graph, Out(b)) = {<<qb, 1>>}
          /\ graph.n[graph.n[qa].ins[2][1]].kind = "Constant"
          /\ graph.n[graph.n[qb].ins[2][1]].kind = "q_scale"
          /\ Cardinality(UseSet(graph, Out(qb))) = 3
          /\ \A u \in UseSet(graph, Out(qb)) : graph.n[u[1]].kind = "dequantize"

\* what iteration i made reads the output of its node, or the quantize node it
\* made on that output
OwnOutputOnly(g, g2, n) ==
    /\ Cardinality(NewNodes(g, g2, QuantKinds)) <= 1
    /\ \A q \in NewNodes(g, g2, QuantKinds) : g2.n[q].ins[1] = Out(n)
    /\ \A d \in NewNodes(g, g2, {"dequantize"}) :
          \/ g2.n[d].ins = <<Out(n)>>
          \/ g2.n[d].ins[1][1] \in NewNodes(g, g2, QuantKinds)

\* v are the iterations of the traversal that turns g into g2 and leaves qv2
HandledOnce(v, g, g2, qv2) ==
    /\ g2 = v[Len(v)].st.g
    /\ qv2 = v[Len(v)].st.qv
    /\ (DOMAIN g2.n \ DOMAIN g.n) \subseteq {v[j].n : j \in 1..(Len(v) - 1)}
    /\ \A i \in 1..(Len(v) - 1) :
          /\ \A j \in 1..(i - 1) : v[j].n # v[i].n
          /\ OwnOutputOnly(v[i].st.g, v[i + 1].st.g, v[i].n)
          /\ v[i].n \notin DOMAIN g.n => v[i + 1].st = v[i].st

\* C23: one traversal of propagateQuantizationOps over a block visits the
\* nodes it inserts, gives each op output a quantize/dequantize wrapping or a
\* dequantize swap at most once, and terminates: no node is visited twice, an
\* iteration wraps or swaps the output of its own node only, an iteration on
\* an inserted node changes nothing, and the graph after the last iteration
\* is the graph the traversal leaves
C23_EachOutputHandledOnce ==
    [][(pc = "propagateQuantizationOps") =>
        HandledOnce(Visits, graph, graph', quantized_values_')]_vars

\* the traversal has wrapped the output of an avg_pool2d and then moved the
\* dequantize node this made in front of a flatten behind the flatten
C23_Witness ==
    /\ pc = "RemoveRedundantDequantize"
    /\ \E a, b, qa \in DOMAIN graph.n :
          /\ graph.n[a].kind = "avg_pool2d"
          /\ graph.n[b].kind = "flatten"
          /\ graph.n[qa].kind \in QuantKinds
          /\ graph.n[qa].ins[1] = Out(a)
          /\ graph.n[b].ins = <<Out(qa)>>
          /\ UseSet(graph, Out(b)) # {}
          /\ \A u \in UseSet(graph, Out(b)) : graph.n[u[1]].kind = "dequantize"

\* the inputs a quantize node of the kind takes: the value, the scale, the zero
\* point and the dtype, and for quantize_per_channel the axis as well
QuantizeArity(kind) == IF kind = "quantize_per_channel" THEN 5 ELSE 4

\* C24: the quantize node insertQuantizationOps has just inserted has the number
\* of inputs of its kind, 4 for quantize_per_tensor and 5 for
\* quantize_per_channel, in static and in dynamic mode, for weights and
\* non-weights, for per-tensor and per-channel observers
C24_QuantizeHasArityOfItsKind ==
    last.kind = "insert" =>
        /\ graph.n[last.quant].kind \in QuantKinds
        /\ Len(graph.n[last.quant].ins) = QuantizeArity(graph.n[last.quant].kind)


\* C25: when cleanup has gone over the module tree, every instance it reached,
\* once or more than once, holds the attributes it held before in the same
\* order without the observers: no other slot was removed and each observer
\* attribute was removed once
C25_OnlyObserverSlotsRemoved ==
    last.kind = "cleanup" =>
        /\ pc # "error"
        /\ \A m \in Range(cleaned) : slots[m] = SelectSeq(slots0[m], NotObserver)

====
